---------------------------- MODULE Spec2Model ----------------------------
(***************************************************************************)
(* Model of the n8n-workflows indexing pipeline and search engine:         *)
(*   src/build_vercel_data.py  analyzer and index builder                  *)
(*   src/api/index.py          request handlers reading the persisted      *)
(*                             snapshot on every request                   *)
(*   src/api/vercel_server.py  request handlers over the snapshot loaded   *)
(*                             when the module is imported                 *)
(*   src/vercel_app.py         request handlers over an sqlite table       *)
(*                             filled when the module is imported          *)
(* Python strings are TLA+ strings; the str methods the code calls are     *)
(* operators computed on the characters.                                   *)
(***************************************************************************)
EXTENDS Integers, Sequences, FiniteSets, TLC

VARIABLES
    doc,        \* SpecAnalyze: the file handed to analyze_workflow_file
    rec,        \* SpecAnalyze: what analyze_workflow_file returned
    apprec,     \* SpecAnalyze: what _analyze_workflow_file of vercel_app.py returned
    hashseed,   \* the str hash seed of the running Python process
    corpus,     \* the workflows directory: absent, or the files rglob enumerates
    build,      \* build_vercel_data: position and locals of the running builder
    snapfile,   \* the persisted vercel_workflows.json
    db,         \* src/api/vercel_server.py: the module-level VercelWorkflowDB
    table,      \* src/vercel_app.py: the module and its sqlite table workflows
    req,        \* the request being served
    resp,       \* the response to it
    scan,       \* deep_search_workflows: position and locals of the running scan
    rival,      \* a second run of build_vercel_data on the same output file
    answers     \* the answers the serving process has given, by request

vars == <<doc, rec, apprec, hashseed, corpus, build, snapfile, db, table, req, resp,
          scan, rival, answers>>

(***************************************************************************)
(* Bounds of the model.                                                    *)
(***************************************************************************)
MaxBody == 14
MaxSeed == 1
MaxFiles == 3
MaxPage == 3
MaxPerPage == 3

(***************************************************************************)
(* Python str operations.                                                  *)
(***************************************************************************)
Digits == "0123456789"
\* The characters the model's strings use, in code point order (sorted()).
Ascii == " (),-./0123456789:@ABCDEFGHIJKLMNOPQRSTUVWXYZ_abcdefghijklmnopqrstuvwxyz"

CharAt(s, i) == SubSeq(s, i, i)

IndexIn(alpha, c) ==
    IF \E k \in 1..Len(alpha) : CharAt(alpha, k) = c
    THEN CHOOSE k \in 1..Len(alpha) : CharAt(alpha, k) = c
    ELSE 0

\* str.lower() and str.upper() on one character
ToLower ==
    "A" :> "a" @@ "B" :> "b" @@ "C" :> "c" @@ "D" :> "d" @@ "E" :> "e" @@ "F" :> "f" @@ "G" :> "g" @@
    "H" :> "h" @@ "I" :> "i" @@ "J" :> "j" @@ "K" :> "k" @@ "L" :> "l" @@ "M" :> "m" @@ "N" :> "n" @@
    "O" :> "o" @@ "P" :> "p" @@ "Q" :> "q" @@ "R" :> "r" @@ "S" :> "s" @@ "T" :> "t" @@ "U" :> "u" @@
    "V" :> "v" @@ "W" :> "w" @@ "X" :> "x" @@ "Y" :> "y" @@ "Z" :> "z"

ToUpper ==
    "a" :> "A" @@ "b" :> "B" @@ "c" :> "C" @@ "d" :> "D" @@ "e" :> "E" @@ "f" :> "F" @@ "g" :> "G" @@
    "h" :> "H" @@ "i" :> "I" @@ "j" :> "J" @@ "k" :> "K" @@ "l" :> "L" @@ "m" :> "M" @@ "n" :> "N" @@
    "o" :> "O" @@ "p" :> "P" @@ "q" :> "Q" @@ "r" :> "R" @@ "s" :> "S" @@ "t" :> "T" @@ "u" :> "U" @@
    "v" :> "V" @@ "w" :> "W" @@ "x" :> "X" @@ "y" :> "Y" @@ "z" :> "Z"

UpperLetters == DOMAIN ToLower
LowerLetters == DOMAIN ToUpper

LowerChar(c) == IF c \in UpperLetters THEN ToLower[c] ELSE c

UpperChar(c) == IF c \in LowerLetters THEN ToUpper[c] ELSE c

\* s.lower(), by halves
RECURSIVE PyLower(_)
PyLower(s) ==
    IF Len(s) <= 1 THEN LowerChar(s)
    ELSE LET half == Len(s) \div 2
         IN  PyLower(SubSeq(s, 1, half)) \o PyLower(SubSeq(s, half + 1, Len(s)))

\* sub in s
Contains(sub, s) ==
    \E i \in 1..(Len(s) - Len(sub) + 1) : SubSeq(s, i, i + Len(sub) - 1) = sub

StartsWith(s, p) == Len(p) <= Len(s) /\ SubSeq(s, 1, Len(p)) = p

\* s.replace(old, new), old non-empty: every non-overlapping occurrence, left to right
RECURSIVE PyReplace(_, _, _)
PyReplace(s, old, new) ==
    IF ~Contains(old, s) THEN s
    ELSE LET k == CHOOSE i \in 1..Len(s) :
                      /\ SubSeq(s, i, i + Len(old) - 1) = old
                      /\ \A j \in 1..(i - 1) : SubSeq(s, j, j + Len(old) - 1) # old
         IN  SubSeq(s, 1, k - 1) \o new
             \o PyReplace(SubSeq(s, k + Len(old), Len(s)), old, new)

\* s.split(sep), sep one character
RECURSIVE PySplit(_, _)
PySplit(s, sep) ==
    IF ~Contains(sep, s) THEN <<s>>
    ELSE LET k == CHOOSE i \in 1..Len(s) :
                      /\ CharAt(s, i) = sep
                      /\ \A j \in 1..(i - 1) : CharAt(s, j) # sep
         IN  <<SubSeq(s, 1, k - 1)>> \o PySplit(SubSeq(s, k + 1, Len(s)), sep)

RECURSIVE PyJoin(_, _)
PyJoin(sep, parts) ==
    IF parts = <<>> THEN ""
    ELSE IF Len(parts) = 1 THEN parts[1]
    ELSE parts[1] \o sep \o PyJoin(sep, Tail(parts))

RECURSIVE PyLStrip(_)
PyLStrip(s) == IF s # "" /\ Head(s) = " " THEN PyLStrip(Tail(s)) ELSE s

RECURSIVE PyRStrip(_)
PyRStrip(s) ==
    IF s # "" /\ CharAt(s, Len(s)) = " " THEN PyRStrip(SubSeq(s, 1, Len(s) - 1)) ELSE s

PyStrip(s) == PyRStrip(PyLStrip(s))

IsDigit(s) == s # "" /\ \A i \in 1..Len(s) : IndexIn(Digits, CharAt(s, i)) # 0

Capitalize(s) == IF s = "" THEN "" ELSE UpperChar(Head(s)) \o PyLower(Tail(s))

\* str(n) for n >= 0
RECURSIVE IntToStr(_)
IntToStr(n) ==
    IF n < 10 THEN CharAt(Digits, n + 1)
    ELSE IntToStr(n \div 10) \o CharAt(Digits, (n % 10) + 1)

\* s < t in code point order
RECURSIVE StrLess(_, _)
StrLess(s, t) ==
    IF t = "" THEN FALSE
    ELSE IF s = "" THEN TRUE
    ELSE IF Head(s) = Head(t) THEN StrLess(Tail(s), Tail(t))
    ELSE IndexIn(Ascii, Head(s)) < IndexIn(Ascii, Head(t))

\* sorted(list(S)) for a set of strings
RECURSIVE SortedList(_)
SortedList(S) ==
    IF S = {} THEN <<>>
    ELSE LET m == CHOOSE x \in S : \A y \in S \ {x} : StrLess(x, y)
         IN  <<m>> \o SortedList(S \ {m})

(***************************************************************************)
(* JSON values of a workflow document.  A string field is a record telling *)
(* whether the key is present and holds a string.                          *)
(***************************************************************************)
JStr(s) == [t |-> "str", s |-> s]
JNull == [t |-> "null", s |-> ""]
JAbsent == [t |-> "absent", s |-> ""]

\* An item of a document's tags: a string, or the object {"name": name}.
JObject(name) == [t |-> "object", s |-> name]

\* str(tag)
PyStr(tag) == IF tag.t = "str" THEN tag.s ELSE "{'name': '" \o tag.s \o "'}"
PyStrs(tags) == [i \in 1..Len(tags) |-> PyStr(tags[i])]

Node(type, name) == [type |-> type, name |-> name]

\* What analyze_workflow_file hands back: a record, None, or an exception
\* that it does not catch.
NoRecord == [filename |-> ""]
Returned(r) == [out |-> "record", rec |-> r]
ReturnedNone == [out |-> "none", rec |-> NoRecord]
Raised == [out |-> "raise", rec |-> NoRecord]

(***************************************************************************)
(* analyze_workflow_file: the resolver table, in the dict's insertion      *)
(* order.                                                                  *)
(***************************************************************************)
service_mappings == <<
    <<"openai", "OpenAI">>, <<"lmchatopenai", "OpenAI">>, <<"anthropic", "Anthropic">>,
    <<"agent", "Agent">>, <<"chat", "Chat">>, <<"memorybufferwindow", "Memory Buffer">>,
    <<"chainllm", "Chain LLM">>, <<"lmchatgooglegemini", "Google Gemini">>, <<"lmchatollama", "Ollama">>,
    <<"lmopenhuggingfaceinference", "Hugging Face">>, <<"embeddingsgooglegemini", "Google Embeddings">>, <<"toolhttprequest", "HTTP Tool">>,
    <<"toolwikipedia", "Wikipedia Tool">>, <<"executeworkflow", "Execute Workflow">>, <<"documentdefaultdataloader", "Document Loader">>,
    <<"outputparserstructured", "Output Parser">>, <<"telegram", "Telegram">>, <<"telegramTrigger", "Telegram">>,
    <<"discord", "Discord">>, <<"slack", "Slack">>, <<"whatsapp", "WhatsApp">>,
    <<"mattermost", "Mattermost">>, <<"gmail", "Gmail">>, <<"gmailtool", "Gmail">>,
    <<"emailreadimap", "Email (IMAP)">>, <<"emailsendsmt", "Email (SMTP)">>, <<"googledrive", "Google Drive">>,
    <<"googledocs", "Google Docs">>, <<"googlesheets", "Google Sheets">>, <<"googlecalendar", "Google Calendar">>,
    <<"googlecalendartool", "Google Calendar">>, <<"googletasks", "Google Tasks">>, <<"dropbox", "Dropbox">>,
    <<"postgres", "PostgreSQL">>, <<"mysql", "MySQL">>, <<"mongodb", "MongoDB">>,
    <<"airtable", "Airtable">>, <<"airtabletool", "Airtable">>, <<"notion", "Notion">>,
    <<"github", "GitHub">>, <<"gitlab", "GitLab">>, <<"asana", "Asana">>,
    <<"typeform", "Typeform">>, <<"form", "Form Trigger">>, <<"webhook", "Webhook">>,
    <<"httprequest", "HTTP Request">>, <<"converttofile", "Convert to File">>, <<"extractfromfile", "Extract from File">>,
    <<"stickynote", "Sticky Note">>, <<"cal", "Cal.com">>, <<"calendly", "Calendly">>,
    <<"cron", "Cron">>, <<"schedule", "Schedule">>, <<"hubspot", "HubSpot">>,
    <<"stripe", "Stripe">>, <<"paypal", "PayPal">> >>

\* The table as a dict: key -> value.
ServiceMap ==
    [key \in {service_mappings[k][1] : k \in 1..Len(service_mappings)} |->
        service_mappings[CHOOSE k \in 1..Len(service_mappings) :
                             service_mappings[k][1] = key][2]]

\* service_mappings.get(key): the value, or None (the empty string here:
\* the code only tests the result for truth)
MappingGet(key) == IF key \in DOMAIN ServiceMap THEN ServiceMap[key] ELSE ""

\* One iteration of the node loop on trigger_type; node_type and node_name
\* are the lower-cased strings.
NodeTriggerLastHitWins(trigger_type, node_type, node_name) ==
    IF Contains("webhook", node_type) \/ Contains("webhook", node_name)
    THEN "Webhook"
    ELSE IF Contains("cron", node_type) \/ Contains("schedule", node_type)
    THEN "Scheduled"
    ELSE IF Contains("trigger", node_type) /\ ~Contains("manual", node_type)
    THEN "Webhook"
    ELSE trigger_type

NodeTrigger(trigger_type, node_type, node_name) ==
    IF Contains("webhook", node_type) \/ Contains("webhook", node_name)
    THEN "Webhook"
    ELSE IF Contains("cron", node_type) \/ Contains("schedule", node_type)
    THEN "Scheduled"
    ELSE IF Contains("trigger", node_type) /\ trigger_type = "Manual"
    THEN IF ~Contains("manual", node_type) THEN "Webhook" ELSE trigger_type
    ELSE trigger_type

\* One iteration of the node loop on service_name, the name scan skipped when
\* the type resolved.
NodeServiceTypeWins(node_type, node_name) ==
    LET by_type ==
            IF StartsWith(node_type, "n8n-nodes-base.")
            THEN MappingGet(PyReplace(PyLower(PyReplace(node_type, "n8n-nodes-base.", "")),
                                      "trigger", ""))
            ELSE IF StartsWith(node_type, "@n8n/")
            THEN LET parts == PySplit(node_type, ".")
                     raw_service == IF Contains(".", node_type)
                                    THEN PyLower(parts[Len(parts)])
                                    ELSE PyLower(node_type)
                 IN  MappingGet(PyReplace(raw_service, "trigger", ""))
            ELSE ""
        hits == {k \in 1..Len(service_mappings) :
                    /\ Contains(service_mappings[k][1], node_name)
                    /\ service_mappings[k][2] # ""}
    IN  IF by_type # "" THEN by_type
        ELSE IF hits # {}
        THEN service_mappings[CHOOSE k \in hits : \A j \in hits : k <= j][2]
        ELSE ""

\* One iteration of the node loop on service_name.
NodeService(node_type, node_name) ==
    LET by_type ==
            IF StartsWith(node_type, "n8n-nodes-base.")
            THEN MappingGet(PyReplace(PyLower(PyReplace(node_type, "n8n-nodes-base.", "")),
                                      "trigger", ""))
            ELSE IF StartsWith(node_type, "@n8n/")
            THEN LET parts == PySplit(node_type, ".")
                     raw_service == IF Contains(".", node_type)
                                    THEN PyLower(parts[Len(parts)])
                                    ELSE PyLower(node_type)
                 IN  MappingGet(PyReplace(raw_service, "trigger", ""))
            ELSE ""
        hits == {k \in 1..Len(service_mappings) :
                    /\ Contains(service_mappings[k][1], node_name)
                    /\ service_mappings[k][2] # ""}
    IN  IF hits # {}
        THEN service_mappings[CHOOSE k \in hits : \A j \in hits : k <= j][2]
        ELSE by_type

\* The node loop: trigger_type and integrations after it, from acc.
RECURSIVE NodeLoop(_, _)
NodeLoop(nodes, acc) ==
    IF nodes = <<>> THEN acc
    ELSE LET node_type == PyLower(Head(nodes).type)
             node_name == PyLower(Head(nodes).name)
             service_name == NodeService(node_type, node_name)
         IN  NodeLoop(Tail(nodes),
                 [trigger_type |-> NodeTrigger(acc.trigger_type, node_type, node_name),
                  integrations |-> IF service_name # ""
                                   THEN acc.integrations \cup {service_name}
                                   ELSE acc.integrations])

\* list(S) for a set of strings.  A set iterates in hash order, and Python
\* randomizes str hashes per process: hashseed stands for the process's
\* seed, and seed k lists the set in sorted order rotated by k places.
ListOfSet(S, seed) ==
    LET sorted == SortedList(S)
        n == Len(sorted)
    IN  [i \in 1..n |-> sorted[((i - 1 + seed) % n) + 1]]

\* list(integrations)[:3]
MainServices(integrations, seed) ==
    LET listed == ListOfSet(integrations, seed)
    IN  SubSeq(listed, 1, IF Len(listed) < 3 THEN Len(listed) ELSE 3)

ComplexityOfOffByOne(node_count) ==
    IF node_count < 5 THEN "low"
    ELSE IF node_count <= 15 THEN "medium"
    ELSE "high"

ComplexityOf(node_count) ==
    IF node_count <= 5 THEN "low"
    ELSE IF node_count <= 15 THEN "medium"
    ELSE "high"

ComplexOverrideOr(node_count, n_integrations) ==
    node_count > 10 \/ n_integrations > 3

ComplexOverride(node_count, n_integrations) ==
    node_count > 10 /\ n_integrations > 3

format_workflow_name(filename) ==
    LET name == PyReplace(filename, ".json", "")
        parts == PySplit(name, "_")
        kept == IF Len(parts) > 1 /\ IsDigit(parts[1]) THEN Tail(parts) ELSE parts
    IN  PyJoin(" ", [i \in 1..Len(kept) |-> Capitalize(kept[i])])

PurposeClause(workflow_name) ==
    LET n == PyLower(workflow_name)
    IN  IF Contains("create", n) THEN " to create new records"
        ELSE IF Contains("update", n) THEN " to update existing data"
        ELSE IF Contains("sync", n) THEN " to synchronize data"
        ELSE IF Contains("process", n) THEN " for data processing"
        ELSE IF Contains("automation", n) THEN " for automation tasks"
        ELSE " for data processing"

\* The description without the clause of a Scheduled record.
DescriptionNoScheduledClause(node_count, integrations, main_services, trigger_type, workflow_name) ==
    LET base == "Workflow with " \o IntToStr(node_count) \o " nodes"
        named ==
            IF Len(main_services) = 1
            THEN base \o " using " \o main_services[1]
            ELSE IF Len(main_services) = 2
            THEN base \o " connecting " \o main_services[1] \o " and " \o main_services[2]
            ELSE base \o " orchestrating "
                      \o PyJoin(", ", SubSeq(main_services, 1, Len(main_services) - 1))
                      \o ", and " \o main_services[Len(main_services)]
        body == PyReplace(PyReplace(named, "Workflow with", ""), " nodes", " nodes and")
        prefixed ==
            IF trigger_type = "Complex" THEN "Complex multi-step automation that " \o body
            ELSE IF trigger_type = "Webhook" THEN "Webhook-triggered automation that " \o body
            ELSE named
        desc == IF integrations # {} THEN prefixed \o PurposeClause(workflow_name) ELSE base
        counted == desc \o ". Uses " \o IntToStr(node_count) \o " nodes"
    IN  (IF Cardinality(integrations) > 3
         THEN counted \o " and integrates with " \o IntToStr(Cardinality(integrations))
                      \o " services"
         ELSE counted) \o "."

Description(node_count, integrations, main_services, trigger_type, workflow_name) ==
    LET base == "Workflow with " \o IntToStr(node_count) \o " nodes"
        named ==
            IF Len(main_services) = 1
            THEN base \o " using " \o main_services[1]
            ELSE IF Len(main_services) = 2
            THEN base \o " connecting " \o main_services[1] \o " and " \o main_services[2]
            ELSE base \o " orchestrating "
                      \o PyJoin(", ", SubSeq(main_services, 1, Len(main_services) - 1))
                      \o ", and " \o main_services[Len(main_services)]
        body == PyReplace(PyReplace(named, "Workflow with", ""), " nodes", " nodes and")
        prefixed ==
            IF trigger_type = "Complex" THEN "Complex multi-step automation that " \o body
            ELSE IF trigger_type = "Webhook" THEN "Webhook-triggered automation that " \o body
            ELSE IF trigger_type = "Scheduled" THEN "Scheduled automation that " \o body
            ELSE named
        desc == IF integrations # {} THEN prefixed \o PurposeClause(workflow_name) ELSE base
        counted == desc \o ". Uses " \o IntToStr(node_count) \o " nodes"
    IN  (IF Cardinality(integrations) > 3
         THEN counted \o " and integrates with " \o IntToStr(Cardinality(integrations))
                      \o " services"
         ELSE counted) \o "."

(***************************************************************************)
(* analyze_workflow_file(file_path).  file is the file at that path:       *)
(* dir and base name, kind (what reading and parsing it gives), and data,   *)
(* the parsed JSON object.  seed is the hash seed of the running process.  *)
(* The record's workflow_id, created_at, updated_at, file_hash, file_size  *)
(* and content are copied from the document and read by no handler         *)
(* modelled here; they are left out.                                       *)
(***************************************************************************)
analyze_workflow_file(file, seed) ==
    IF file.kind = "unreadable" THEN Raised           \* open(): OSError, not caught
    ELSE IF file.kind \in {"badjson", "badutf8"} THEN ReturnedNone
    ELSE IF file.kind = "list" THEN Raised            \* data.get: AttributeError
    ELSE
    LET data == file.data
        filename == file.base
        nodes == data.nodes
        looped == NodeLoop(nodes, [trigger_type |-> "Manual", integrations |-> {}])
        integrations == looped.integrations
        node_count == Len(nodes)
        trigger_type ==
            IF ComplexOverride(node_count, Cardinality(integrations))
            THEN "Complex" ELSE looped.trigger_type
        complexity == ComplexityOf(node_count)
        json_name == PyStrip(data.name.s)
        workflow_name ==
            IF /\ json_name # ""
               /\ json_name # PyReplace(filename, ".json", "")
               /\ ~StartsWith(json_name, "My workflow")
            THEN json_name
            ELSE format_workflow_name(filename)
    IN  IF data.name.t = "null" THEN Raised           \* None.strip(): AttributeError
        ELSE Returned([
            filename |-> filename,
            name |-> workflow_name,
            active |-> data.active,
            description |-> Description(node_count, integrations,
                                        MainServices(integrations, seed),
                                        trigger_type, workflow_name),
            trigger_type |-> trigger_type,
            complexity |-> complexity,
            node_count |-> node_count,
            integrations |-> SortedList(integrations),
            tags |-> data.tags])

(***************************************************************************)
(* VercelWorkflowDB._analyze_workflow_file of src/vercel_app.py.           *)
(***************************************************************************)
app_service_map ==
    "telegram" :> "Telegram" @@ "slack" :> "Slack" @@ "gmail" :> "Gmail" @@
    "googledrive" :> "Google Drive" @@ "googlesheets" :> "Google Sheets" @@
    "webhook" :> "Webhook" @@ "httprequest" :> "HTTP Request"

RECURSIVE AppNodeLoop(_, _)
AppNodeLoop(nodes, acc) ==
    IF nodes = <<>> THEN acc
    ELSE LET node_type == PyLower(Head(nodes).type)
             service == PyReplace(PyReplace(node_type, "n8n-nodes-base.", ""), "trigger", "")
         IN  AppNodeLoop(Tail(nodes),
                 [trigger_type |->
                      IF Contains("webhook", node_type) THEN "Webhook"
                      ELSE IF Contains("cron", node_type) \/ Contains("schedule", node_type)
                      THEN "Scheduled"
                      ELSE acc.trigger_type,
                  integrations |->
                      IF StartsWith(node_type, "n8n-nodes-base.")
                         /\ service \in DOMAIN app_service_map
                      THEN acc.integrations \cup {app_service_map[service]}
                      ELSE acc.integrations])

AppComplexityOf(node_count) ==
    IF node_count <= 5 THEN "low" ELSE IF node_count <= 15 THEN "medium" ELSE "high"

\* The name is data.get('name', formatted): a present null stays None and is
\* written here as the empty string.
app_analyze_workflow_file(file, seed) ==
    IF file.kind \in {"unreadable", "badjson", "badutf8"} THEN ReturnedNone  \* bare except
    ELSE IF file.kind = "list" THEN Raised            \* data.get: AttributeError
    ELSE
    LET data == file.data
        nodes == data.nodes
        looped == AppNodeLoop(nodes, [trigger_type |-> "Manual", integrations |-> {}])
        integrations == looped.integrations
        node_count == Len(nodes)
        listed == ListOfSet(integrations, seed)
    IN  Returned([
            filename |-> file.base,
            name |-> IF data.name.t = "absent" THEN format_workflow_name(file.base)
                     ELSE data.name.s,
            active |-> data.active,
            description |-> "Workflow with " \o IntToStr(node_count) \o " nodes using "
                \o (IF integrations # {}
                    THEN PyJoin(", ", SubSeq(listed, 1, IF Len(listed) < 3 THEN Len(listed) ELSE 3))
                    ELSE "basic operations"),
            trigger_type |-> looped.trigger_type,
            complexity |-> AppComplexityOf(node_count),
            node_count |-> node_count,
            integrations |-> listed,
            tags |-> data.tags])

(***************************************************************************)
(* Documents the analyzer is run on: a head of up to MaxHead nodes of      *)
(* HeadPool in any order, followed by a body, either all plain nodes or    *)
(* cycling through four services.  The body has any length 0..MaxBody      *)
(* after a head of at most one node, and length 0 or MaxBody after longer  *)
(* heads.                                                                  *)
(***************************************************************************)
MaxHead == 2

HeadPool == {
    Node("n8n-nodes-base.webhook", "Webhook"),
    Node("n8n-nodes-base.cron", "Nightly"),
    Node("n8n-nodes-base.scheduleTrigger", "Every Day"),
    Node("n8n-nodes-base.manualTrigger", "Start"),
    Node("n8n-nodes-base.slackTrigger", "On Message"),
    Node("n8n-nodes-base.rssFeedReadTrigger", "New Item"),
    Node("n8n-nodes-base.set", "Call Webhook URL") }

Heads == UNION {[1..k -> HeadPool] : k \in 0..MaxHead}

RichCycle == <<
    Node("n8n-nodes-base.httpRequest", "Calendly Slack"),
    Node("@n8n/n8n-nodes-langchain.lmChatOpenAi", "Model"),
    Node("n8n-nodes-base.gmail", "Send"),
    Node("n8n-nodes-base.github", "Issue") >>

PlainNode == Node("n8n-nodes-base.set", "Set")

Body(style, m) ==
    [i \in 1..m |-> IF style = "rich" THEN RichCycle[((i - 1) % Len(RichCycle)) + 1]
                    ELSE PlainNode]

ObjectFile(dir, base, name, active, tags, nodes) ==
    [dir |-> dir, base |-> base, kind |-> "object",
     data |-> [name |-> name, active |-> active, tags |-> tags, nodes |-> nodes,
               connections |-> <<>>, items |-> <<>>]]

\* A file that is unreadable, not JSON, not UTF-8, or a JSON list.
OtherFile(dir, base, kind) ==
    [dir |-> dir, base |-> base, kind |-> kind,
     data |-> [name |-> JAbsent, active |-> FALSE, tags |-> <<>>, nodes |-> <<>>,
               connections |-> <<>>, items |-> <<>>]]

\* A file holding a JSON list of strings.
ListFile(dir, base, items) ==
    [OtherFile(dir, base, "list") EXCEPT !.data.items = items]

\* A workflow document with its connections: for each source node name, in
\* the order of the keys of the document, the names of the target nodes in
\* the order the nested lists give them.
DiagramFile(dir, base, name, nodes, connections) ==
    [ObjectFile(dir, base, name, TRUE, <<>>, nodes) EXCEPT !.data.connections = connections]

Wire(source, targets) == [source |-> source, targets |-> targets]

BodySizes(h) == IF Len(h) <= 1 THEN 0..MaxBody ELSE {0, MaxBody}

AnalyzeFiles ==
    {ObjectFile("", "0001_sync_contacts.json", JStr("My workflow 7"), FALSE, <<>>, nodes) :
        nodes \in UNION {{h \o Body(style, m) : style \in {"plain", "rich"}, m \in BodySizes(h)} :
                          h \in Heads}}
    \cup {OtherFile("", "broken.json", k) : k \in {"unreadable", "badjson", "badutf8", "list"}}
    \cup {ObjectFile("", "null_name.json", JNull, FALSE, <<>>, <<PlainNode>>)}


(***************************************************************************)
(* build_vercel_data_dict and build_vercel_data.                           *)
(* A Python dict is a function on its keys; {} is the empty function.      *)
(***************************************************************************)
EmptyDict == <<>>

\* A counter that adds two to a key already present.
DictIncrTwice(d, k) ==
    IF k \in DOMAIN d THEN [d EXCEPT ![k] = @ + 2] ELSE d @@ (k :> 1)

\* d[k] = d.get(k, 0) + 1
DictIncr(d, k) ==
    IF k \in DOMAIN d THEN [d EXCEPT ![k] = @ + 1] ELSE d @@ (k :> 1)

\* sum(...) over a sequence of numbers
RECURSIVE PySum(_)
PySum(seq) == IF seq = <<>> THEN 0 ELSE Head(seq) + PySum(Tail(seq))

\* The loop over workflows_data that fills triggers, complexity and
\* all_integrations.
RECURSIVE StatsLoop(_, _)
StatsLoop(workflows_data, acc) ==
    IF workflows_data = <<>> THEN acc
    ELSE LET workflow == Head(workflows_data)
         IN  StatsLoop(Tail(workflows_data),
                 [triggers |-> DictIncr(acc.triggers, workflow.trigger_type),
                  complexity |-> DictIncr(acc.complexity, workflow.complexity),
                  all_integrations |->
                      acc.all_integrations
                          \cup {workflow.integrations[i] : i \in 1..Len(workflow.integrations)}])

\* stats as build_vercel_data_dict computes it (last_indexed is a fixed
\* string and is left out).
ComputeStats(workflows_data) ==
    LET total == Len(workflows_data)
        n == Len(workflows_data)
        active == PySum([i \in 1..n |-> IF workflows_data[i].active THEN 1 ELSE 0])
        looped == StatsLoop(workflows_data,
                      [triggers |-> EmptyDict, complexity |-> EmptyDict,
                       all_integrations |-> {}])
    IN  [total |-> total,
         active |-> active,
         inactive |-> total - active,
         triggers |-> looped.triggers,
         complexity |-> looped.complexity,
         total_nodes |-> PySum([i \in 1..n |-> workflows_data[i].node_count]),
         unique_integrations |-> Cardinality(looped.all_integrations)]

\* {'stats': {}, 'workflows': []}
EmptySnapshot == [stats |-> EmptyDict, workflows |-> <<>>]

\* vercel_data (generated_at and version are fixed strings and are left out)
Snapshot(stats, workflows) == [stats |-> stats, workflows |-> workflows]

BuildIdle ==
    [pc |-> "idle", json_files |-> <<>>, i |-> 0, workflows_data |-> <<>>,
     errors |-> 0, vercel_data |-> EmptySnapshot, raised_in |-> "", pos |-> 0]

(***************************************************************************)
(* The persisted file.  json.dump writes the text in pieces; the file is   *)
(* the pieces written so far, each naming the part of the top-level object *)
(* it holds and carrying the JSON text of it: strings quoted and escaped,  *)
(* numbers in decimal, booleans as true and false.                         *)
(***************************************************************************)
AbsentFile == [exists |-> FALSE, chunks |-> <<>>]

\* json.dump of a str: the text in quotes, backslash and quote escaped
JsonString(s) ==
    "\"" \o PyReplace(PyReplace(s, "\\", "\\\\"), "\"", "\\\"") \o "\""

\* the characters of a JSON string with the escapes taken out
RECURSIVE JsonUnescape(_)
JsonUnescape(text) ==
    IF ~Contains("\\", text) THEN text
    ELSE LET k == CHOOSE i \in 1..Len(text) :
                      /\ CharAt(text, i) = "\\"
                      /\ \A j \in 1..(i - 1) : CharAt(text, j) # "\\"
         IN  SubSeq(text, 1, k - 1) \o CharAt(text, k + 1)
             \o JsonUnescape(SubSeq(text, k + 2, Len(text)))

\* json.load of a string literal: the quotes dropped, the escapes taken out
JsonStringValue(literal) == JsonUnescape(SubSeq(literal, 2, Len(literal) - 1))

\* json.load of the decimal text of an int >= 0 (json.dump writes str(n))
RECURSIVE JsonIntValue(_)
JsonIntValue(literal) ==
    IF Len(literal) = 1 THEN IndexIn(Digits, literal) - 1
    ELSE 10 * JsonIntValue(SubSeq(literal, 1, Len(literal) - 1))
         + IndexIn(Digits, CharAt(literal, Len(literal))) - 1

\* json.dump and json.load of one item of tags
JsonTag(tag) ==
    IF tag.t = "str" THEN JsonString(tag.s)
    ELSE "{\"name\": " \o JsonString(tag.s) \o "}"

JsonTagValue(text) ==
    IF StartsWith(text, "{")
    THEN JObject(JsonStringValue(SubSeq(text, Len("{\"name\": ") + 1, Len(text) - 1)))
    ELSE JStr(JsonStringValue(text))

\* json.dump of one record of workflows
JsonRecord(w) ==
    [filename |-> JsonString(w.filename), name |-> JsonString(w.name),
     active |-> IF w.active THEN "true" ELSE "false",
     description |-> JsonString(w.description),
     trigger_type |-> JsonString(w.trigger_type),
     complexity |-> JsonString(w.complexity), node_count |-> IntToStr(w.node_count),
     integrations |-> [i \in 1..Len(w.integrations) |-> JsonString(w.integrations[i])],
     tags |-> [i \in 1..Len(w.tags) |-> JsonTag(w.tags[i])]]

\* json.load of one record of workflows
JsonRecordValue(object) ==
    [filename |-> JsonStringValue(object.filename), name |-> JsonStringValue(object.name),
     active |-> (object.active = "true"),
     description |-> JsonStringValue(object.description),
     trigger_type |-> JsonStringValue(object.trigger_type),
     complexity |-> JsonStringValue(object.complexity),
     node_count |-> JsonIntValue(object.node_count),
     integrations |-> [i \in 1..Len(object.integrations) |->
                          JsonStringValue(object.integrations[i])],
     tags |-> [i \in 1..Len(object.tags) |-> JsonTagValue(object.tags[i])]]

\* json.dump of stats: {} or the seven counts
JsonStats(stats) ==
    LET JsonCounts(d) ==
            [key \in {JsonString(k) : k \in DOMAIN d} |->
                IntToStr(d[JsonStringValue(key)])]
    IN  IF DOMAIN stats = {} THEN EmptyDict
        ELSE [total |-> IntToStr(stats.total), active |-> IntToStr(stats.active),
              inactive |-> IntToStr(stats.inactive),
              triggers |-> JsonCounts(stats.triggers),
              complexity |-> JsonCounts(stats.complexity),
              total_nodes |-> IntToStr(stats.total_nodes),
              unique_integrations |-> IntToStr(stats.unique_integrations)]

\* json.load of stats
JsonStatsValue(object) ==
    LET JsonCountsValue(o) ==
            [k \in {JsonStringValue(key) : key \in DOMAIN o} |->
                JsonIntValue(o[JsonString(k)])]
    IN  IF DOMAIN object = {} THEN EmptyDict
        ELSE [total |-> JsonIntValue(object.total), active |-> JsonIntValue(object.active),
              inactive |-> JsonIntValue(object.inactive),
              triggers |-> JsonCountsValue(object.triggers),
              complexity |-> JsonCountsValue(object.complexity),
              total_nodes |-> JsonIntValue(object.total_nodes),
              unique_integrations |-> JsonIntValue(object.unique_integrations)]

\* json.dump(vercel_data, f): the text of the object, in two pieces
Serialize(vercel_data) ==
    <<[part |-> "stats", json |-> JsonStats(vercel_data.stats)],
      [part |-> "workflows",
       json |-> [i \in 1..Len(vercel_data.workflows) |->
                    JsonRecord(vercel_data.workflows[i])]]>>

\* write(piece) at offset k of a file: the file grows to reach the offset,
\* the stretch no write has filled being a hole
WriteAt(chunks, k, piece) ==
    [i \in 1..(IF k > Len(chunks) THEN k ELSE Len(chunks)) |->
        IF i = k THEN piece
        ELSE IF i <= Len(chunks) THEN chunks[i]
        ELSE [part |-> "hole", json |-> <<>>]]

\* json.load of the file: the dict, or a JSONDecodeError on cut-off text
ParseOk(file) ==
    /\ Len(file.chunks) = 2
    /\ file.chunks[1].part = "stats"
    /\ file.chunks[2].part = "workflows"

Parsed(file) ==
    [stats |-> JsonStatsValue(file.chunks[1].json),
     workflows |-> [i \in 1..Len(file.chunks[2].json) |->
                       JsonRecordValue(file.chunks[2].json[i])]]

(***************************************************************************)
(* The builder's steps.                                                    *)
(***************************************************************************)
\* build_vercel_data_dict up to the loop: the directory test and rglob
BuildStart ==
    /\ build.pc = "idle"
    /\ build' =
         IF ~corpus.exists \/ corpus.files = <<>>
         THEN [build EXCEPT !.pc = "open", !.vercel_data = EmptySnapshot]
         ELSE [build EXCEPT !.pc = "loop", !.json_files = corpus.files, !.i = 1,
                            !.workflows_data = <<>>, !.errors = 0]
    /\ UNCHANGED <<doc, rec, apprec, hashseed, corpus, snapfile, db, table, req, resp,
                 scan, rival, answers>>

\* one iteration of the loop over json_files; an exception that
\* analyze_workflow_file lets through ends build_vercel_data
BuildAnalyze ==
    /\ build.pc = "loop"
    /\ build.i <= Len(build.json_files)
    /\ LET workflow_data == analyze_workflow_file(build.json_files[build.i], hashseed)
       IN  build' =
             IF workflow_data.out = "raise"
             THEN [build EXCEPT !.pc = "raised", !.raised_in = "build_vercel_data_dict"]
             ELSE IF workflow_data.out = "record"
             THEN [build EXCEPT !.i = @ + 1,
                                !.workflows_data = Append(@, workflow_data.rec)]
             ELSE [build EXCEPT !.i = @ + 1, !.errors = @ + 1]
    /\ UNCHANGED <<doc, rec, apprec, hashseed, corpus, snapfile, db, table, req, resp,
                 scan, rival, answers>>

\* after the loop: the statistics and the returned dict
BuildStats ==
    /\ build.pc = "loop"
    /\ build.i > Len(build.json_files)
    /\ build' = [build EXCEPT !.pc = "open",
                     !.vercel_data = Snapshot(ComputeStats(build.workflows_data),
                                              build.workflows_data)]
    /\ UNCHANGED <<doc, rec, apprec, hashseed, corpus, snapfile, db, table, req, resp,
                 scan, rival, answers>>

\* build_vercel_data: open(output_file, 'w') truncates the file
BuildOpen ==
    /\ build.pc = "open"
    /\ snapfile' = [exists |-> TRUE, chunks |-> <<>>]
    /\ build' = [build EXCEPT !.pc = "dump", !.pos = 0]
    /\ UNCHANGED <<doc, rec, apprec, hashseed, corpus, db, table, req, resp,
                 scan, rival, answers>>

\* json.dump: the next piece; the file is closed after the last
BuildDump ==
    /\ build.pc = "dump"
    /\ LET text == Serialize(build.vercel_data)
           k == build.pos + 1
       IN  /\ snapfile' = [snapfile EXCEPT !.chunks = WriteAt(@, k, text[k])]
           /\ build' = [build EXCEPT !.pos = k,
                                     !.pc = IF k = Len(text) THEN "report" ELSE "dump"]
    /\ UNCHANGED <<doc, rec, apprec, hashseed, corpus, db, table, req, resp,
                 scan, rival, answers>>

\* the report: stats['total'] is a KeyError on the empty stats
BuildReport ==
    /\ build.pc = "report"
    /\ build' = IF "total" \in DOMAIN build.vercel_data.stats
                THEN [build EXCEPT !.pc = "done"]
                ELSE [build EXCEPT !.pc = "raised", !.raised_in = "build_vercel_data"]
    /\ UNCHANGED <<doc, rec, apprec, hashseed, corpus, snapfile, db, table, req, resp,
                 scan, rival, answers>>

BuildNext ==
    \/ BuildStart
    \/ BuildAnalyze
    \/ BuildStats
    \/ BuildOpen
    \/ BuildDump
    \/ BuildReport

(***************************************************************************)
(* Corpora: the files of the workflows directory in the order rglob lists  *)
(* them, at most MaxFiles files with distinct paths.                       *)
(***************************************************************************)
LeadFile ==
    ObjectFile("", "0001_create_lead.json", JStr("Create Lead"), TRUE, <<>>,
               <<Node("n8n-nodes-base.webhook", "Webhook"),
                 Node("n8n-nodes-base.slack", "Post")>>)

DigestFile ==
    ObjectFile("", "0002_digest.json", JStr("My workflow 2"), FALSE, <<JStr("Slack-Alerts")>>,
               <<Node("n8n-nodes-base.manualTrigger", "Start")>> \o Body("plain", 5))

\* the same base name as LeadFile, in a sub-directory
SyncFile ==
    ObjectFile("sub", "0001_create_lead.json", JStr("Slack Nightly Sync"), TRUE, <<JStr("ops")>>,
               <<Node("n8n-nodes-base.cron", "Nightly"),
                 Node("n8n-nodes-base.gmail", "Send")>>)

GoodFiles == {LeadFile, DigestFile, SyncFile}

BadFiles ==
    {OtherFile("", "broken.json", k) : k \in {"unreadable", "badjson", "badutf8", "list"}}
    \cup {ObjectFile("", "broken.json", JNull, FALSE, <<>>, <<PlainNode>>)}

PathOf(file) == <<file.dir, file.base>>

DistinctPaths(files) ==
    \A i, j \in 1..Len(files) : i # j => PathOf(files[i]) # PathOf(files[j])

FileSeqs(pool) ==
    {files \in UNION {[1..k -> pool] : k \in 0..MaxFiles} : DistinctPaths(files)}

AbsentDir == [exists |-> FALSE, files |-> <<>>]
Dir(files) == [exists |-> TRUE, files |-> files]

BuildCorpora == {AbsentDir} \cup {Dir(files) : files \in FileSeqs(GoodFiles \cup BadFiles)}

(***************************************************************************)
(* Idle values of the parts a specification does not run.                  *)
(***************************************************************************)
NotRun == [out |-> "pending", rec |-> NoRecord]
NoFile == OtherFile("", "", "none")
NoReq == [kind |-> "none"]
NoResp == [kind |-> "none"]
NotImported == [state |-> "down", data |-> EmptySnapshot]
NoTable == [state |-> "down", rows |-> <<>>]
NoScan == [pc |-> "idle", walked |-> FALSE, files |-> <<>>, k |-> 1, reads |-> 0,
           results |-> <<>>]
NoAnswers == <<>>

(***************************************************************************)
(* SpecAnalyze: analyze_workflow_file run once on one file.                *)
(***************************************************************************)
AnalyzeInit ==
    /\ doc \in AnalyzeFiles
    /\ rec = NotRun
    /\ apprec = NotRun
    /\ hashseed \in 0..MaxSeed
    /\ corpus = AbsentDir
    /\ build = BuildIdle
    /\ snapfile = AbsentFile
    /\ db = NotImported
    /\ table = NoTable
    /\ req = NoReq
    /\ resp = NoResp
    /\ scan = NoScan
    /\ rival = BuildIdle
    /\ answers = NoAnswers

Analyze ==
    /\ rec.out = "pending"
    /\ rec' = analyze_workflow_file(doc, hashseed)
    /\ UNCHANGED <<doc, apprec, hashseed, corpus, build, snapfile, db, table, req, resp,
                 scan, rival, answers>>

AppAnalyze ==
    /\ apprec.out = "pending"
    /\ apprec' = app_analyze_workflow_file(doc, hashseed)
    /\ UNCHANGED <<doc, rec, hashseed, corpus, build, snapfile, db, table, req, resp,
                 scan, rival, answers>>

AnalyzeNext == Analyze \/ AppAnalyze

SpecAnalyze == AnalyzeInit /\ [][AnalyzeNext]_vars

(***************************************************************************)
(* SpecBuild: one run of build_vercel_data over a corpus.                  *)
(***************************************************************************)
BuildInit ==
    /\ doc = NoFile
    /\ rec = NotRun
    /\ apprec = NotRun
    /\ hashseed \in 0..MaxSeed
    /\ corpus \in BuildCorpora
    /\ build = BuildIdle
    /\ snapfile = AbsentFile
    /\ db = NotImported
    /\ table = NoTable
    /\ req = NoReq
    /\ resp = NoResp
    /\ scan = NoScan
    /\ rival = BuildIdle
    /\ answers = NoAnswers

SpecBuild == BuildInit /\ [][BuildNext]_vars

(***************************************************************************)
(* Python integer and sequence operations used by the request handlers.    *)
(***************************************************************************)
\* a // b, rounding toward minus infinity (b # 0)
PyFloorDiv(a, b) == IF b > 0 THEN a \div b ELSE (0 - a) \div (0 - b)

\* seq[start:stop]: a negative index counts from the end, and both ends
\* are clipped to the sequence
PySlice(seq, start, stop) ==
    LET n == Len(seq)
        Clip(x) == IF x < 0 THEN (IF x + n < 0 THEN 0 ELSE x + n)
                   ELSE (IF x > n THEN n ELSE x)
        lo == Clip(start)
        hi == Clip(stop)
    IN  IF lo >= hi THEN <<>> ELSE SubSeq(seq, lo + 1, hi)

\* any(sub in str(x).lower() for x in items)
AnyContains(sub, items) == \E i \in 1..Len(items) : Contains(sub, PyLower(items[i]))

(***************************************************************************)
(* Requests and responses.                                                 *)
(***************************************************************************)
SearchReq(q, page, per_page, trigger, complexity, active_only) ==
    [kind |-> "index", q |-> q, page |-> page, per_page |-> per_page,
     trigger |-> trigger, complexity |-> complexity, active_only |-> active_only]

ServerReq(q, page, per_page) ==
    [kind |-> "server", q |-> q, page |-> page, per_page |-> per_page]

AppReq(q, page, per_page) ==
    [kind |-> "app", q |-> q, page |-> page, per_page |-> per_page]

\* a JSON body {"error": ...}, sent with status 200
ErrorBody(message) == [kind |-> "error", status |-> 200, error |-> message]

\* the 422 of a Query(ge=..., le=...) constraint that failed
Unprocessable == [kind |-> "rejected", status |-> 422]

\* the search result
PageBody(workflows, total, page, per_page, pages, q, filters) ==
    [kind |-> "page", status |-> 200, workflows |-> workflows, total |-> total,
     page |-> page, per_page |-> per_page, pages |-> pages, query |-> q,
     filters |-> filters]

(***************************************************************************)
(* search_workflows of src/api/index.py.                                   *)
(***************************************************************************)
\* The text predicate without its filename clause.
MatchesTextNoFilename(search_query, w) ==
    \/ Contains(search_query, PyLower(w.name))
    \/ Contains(search_query, PyLower(w.description))
    \/ AnyContains(search_query, w.integrations)
    \/ Contains(search_query, PyLower(IntToStr(w.node_count)))
    \/ Contains(search_query, PyLower(w.trigger_type))
    \/ Contains(search_query, PyLower(w.complexity))
    \/ AnyContains(search_query, PyStrs(w.tags))

\* the condition of the list comprehension under `if q:`
MatchesText(search_query, w) ==
    \/ Contains(search_query, PyLower(w.name))
    \/ Contains(search_query, PyLower(w.description))
    \/ AnyContains(search_query, w.integrations)
    \/ Contains(search_query, PyLower(IntToStr(w.node_count)))
    \/ Contains(search_query, PyLower(w.trigger_type))
    \/ Contains(search_query, PyLower(w.complexity))
    \/ AnyContains(search_query, PyStrs(w.tags))
    \/ Contains(search_query, PyLower(w.filename))

\* A start index that takes the page number as 0-based.
StartIdxZeroBased(page, per_page) == page * per_page

\* start_idx = (page - 1) * per_page
StartIdx(page, per_page) == (page - 1) * per_page

\* A page count that rounds down.
PageCountRoundingDown(total, per_page) == PyFloorDiv(total, per_page)

\* pages = (total + per_page - 1) // per_page
PageCount(total, per_page) == PyFloorDiv(total + per_page - 1, per_page)

\* the filters, one list comprehension after the other
ApplyFilters(workflows, r) ==
    LET search_query == PyLower(r.q)
        TextTest(w) == MatchesText(search_query, w)
        TriggerTest(w) == PyLower(w.trigger_type) = PyLower(r.trigger)
        ComplexityTest(w) == PyLower(w.complexity) = PyLower(r.complexity)
        ActiveTest(w) == w.active
        by_text == IF r.q # "" THEN SelectSeq(workflows, TextTest) ELSE workflows
        by_trigger == IF r.trigger # "" /\ r.trigger # "all"
                      THEN SelectSeq(by_text, TriggerTest) ELSE by_text
        by_complexity == IF r.complexity # "" /\ r.complexity # "all"
                         THEN SelectSeq(by_trigger, ComplexityTest) ELSE by_trigger
    IN  IF r.active_only THEN SelectSeq(by_complexity, ActiveTest) ELSE by_complexity

\* The whole handler: every exception becomes an error body.
search_workflows(file, r) ==
    IF ~file.exists THEN ErrorBody("vercel_workflows.json not found")
    ELSE IF ~ParseOk(file) THEN ErrorBody("JSONDecodeError")
    ELSE LET workflows == Parsed(file).workflows
             filtered == ApplyFilters(workflows, r)
             total == Len(filtered)
             start_idx == StartIdx(r.page, r.per_page)
             end_idx == start_idx + r.per_page
             paginated_workflows == PySlice(filtered, start_idx, end_idx)
         IN  IF r.per_page = 0 THEN ErrorBody("ZeroDivisionError")
             ELSE PageBody(paginated_workflows, total, r.page, r.per_page,
                           PageCount(total, r.per_page), r.q,
                           [trigger |-> r.trigger, complexity |-> r.complexity,
                            active_only |-> r.active_only])

(***************************************************************************)
(* src/api/vercel_server.py: the snapshot is loaded once, when the module  *)
(* is imported, and every request is served from the loaded copy.          *)
(***************************************************************************)
ServerPerPageLe == 100

\* VercelWorkflowDB._load_data: a missing or unparsable file is the empty snapshot
load_data(file) ==
    IF file.exists /\ ParseOk(file) THEN Parsed(file) ELSE EmptySnapshot

\* VercelWorkflowDB.get_stats: the loaded dict always has the key 'stats', so
\* the default of .get is never taken
db_get_stats(data) == data.stats

\* VercelWorkflowDB.search_workflows: (paginated_workflows, total)
db_search_workflows(data, query, limit, offset) ==
    LET workflows == data.workflows
        query_lower == PyLower(query)
        Test(w) == \/ Contains(query_lower, PyLower(w.name))
                   \/ Contains(query_lower, PyLower(w.description))
                   \/ AnyContains(query_lower, w.integrations)
        filtered_workflows == IF PyStrip(query) # "" THEN SelectSeq(workflows, Test)
                              ELSE workflows
    IN  [workflows |-> PySlice(filtered_workflows, offset, offset + limit),
         total |-> Len(filtered_workflows)]

\* WorkflowSummary(**workflow): the record's fields validated against the
\* declared types, with id absent.  The records of this model hold strings,
\* a bool, an int and lists of strings, which validate unchanged; a record
\* that fails SummaryValidates is skipped by the caller.
WorkflowSummary(workflow) ==
    [id |-> "None", filename |-> workflow.filename, name |-> workflow.name,
     active |-> workflow.active, description |-> workflow.description,
     trigger_type |-> workflow.trigger_type, complexity |-> workflow.complexity,
     node_count |-> workflow.node_count, integrations |-> workflow.integrations,
     tags |-> workflow.tags]

\* WorkflowSummary(**workflow) raises no ValidationError: tags is declared
\* List[str], and an object is not a str.
SummaryValidates(workflow) ==
    \A i \in 1..Len(workflow.tags) : workflow.tags[i].t = "str"

\* pages = (total + per_page - 1) // per_page
ServerPageCount(total, per_page) == PyFloorDiv(total + per_page - 1, per_page)

\* the endpoint /api/workflows
server_search_workflows(data, r) ==
    IF r.page < 1 \/ r.per_page < 1 \/ r.per_page > ServerPerPageLe THEN Unprocessable
    ELSE LET offset == (r.page - 1) * r.per_page
             found == db_search_workflows(data, r.q, r.per_page, offset)
             converted == SelectSeq(found.workflows, SummaryValidates)
             workflow_summaries ==
                 [i \in 1..Len(converted) |-> WorkflowSummary(converted[i])]
         IN  PageBody(workflow_summaries, found.total, r.page, r.per_page,
                      ServerPageCount(found.total, r.per_page), r.q, <<>>)

(***************************************************************************)
(* src/vercel_app.py: the sqlite table workflows, filled from the          *)
(* workflows directory when the module is imported.                        *)
(***************************************************************************)
AppFileLimit == 100
AppPerPageLe == 100

\* json.dumps of a list of strings free of quotes, backslashes and
\* non-ASCII characters
JsonDumps(list) ==
    "[" \o PyJoin(", ", [i \in 1..Len(list) |-> "\"" \o list[i] \o "\""]) \o "]"

\* the items of the text between the brackets
RECURSIVE JsonItems(_)
JsonItems(text) ==
    IF text = "" THEN <<>>
    ELSE LET close == CHOOSE k \in 2..Len(text) :
                          /\ CharAt(text, k) = "\""
                          /\ \A j \in 2..(k - 1) : CharAt(text, j) # "\""
             rest == SubSeq(text, close + 1, Len(text))
         IN  <<SubSeq(text, 2, close - 1)>>
             \o JsonItems(IF StartsWith(rest, ", ") THEN SubSeq(rest, 3, Len(rest))
                          ELSE rest)

\* json.loads of such a text
JsonLoads(text) == JsonItems(SubSeq(text, 2, Len(text) - 1))

\* json.dumps and json.loads of a list of tags
JsonDumpsTags(tags) ==
    "[" \o PyJoin(", ", [i \in 1..Len(tags) |-> JsonTag(tags[i])]) \o "]"

RECURSIVE JsonTagItems(_)
JsonTagItems(text) ==
    IF text = "" THEN <<>>
    ELSE LET object == StartsWith(text, "{")
             open == IF object THEN Len("{\"name\": ") + 1 ELSE 1
             close == CHOOSE k \in (open + 1)..Len(text) :
                          /\ CharAt(text, k) = "\""
                          /\ \A j \in (open + 1)..(k - 1) : CharAt(text, j) # "\""
             last == IF object THEN close + 1 ELSE close
             rest == SubSeq(text, last + 1, Len(text))
         IN  <<JsonTagValue(SubSeq(text, 1, last))>>
             \o JsonTagItems(IF StartsWith(rest, ", ") THEN SubSeq(rest, 3, Len(rest))
                             ELSE rest)

JsonLoadsTags(text) == JsonTagItems(SubSeq(text, 2, Len(text) - 1))

\* x LIKE pattern: % is any run of characters, _ any one character, and
\* ASCII letters match in either case
RECURSIVE SqlLike(_, _)
SqlLike(pattern, s) ==
    IF pattern = "" THEN s = ""
    ELSE IF Head(pattern) = "%"
    THEN \E k \in 0..Len(s) : SqlLike(Tail(pattern), SubSeq(s, k + 1, Len(s)))
    ELSE /\ s # ""
         /\ Head(pattern) = "_" \/ LowerChar(Head(pattern)) = LowerChar(Head(s))
         /\ SqlLike(Tail(pattern), Tail(s))

\* INSERT OR REPLACE: filename is UNIQUE, so a row of the same filename is
\* deleted; the new row takes the next rowid.  The bool is stored as 0 or 1
\* and the two lists as JSON text.
InsertOrReplace(rows, workflow) ==
    LET Other(row) == row.filename # workflow.filename
        kept == SelectSeq(rows, Other)
        id == IF kept = <<>> THEN 1 ELSE kept[Len(kept)].id + 1
    IN  Append(kept,
               [id |-> id, filename |-> workflow.filename, name |-> workflow.name,
                active |-> IF workflow.active THEN 1 ELSE 0,
                description |-> workflow.description,
                trigger_type |-> workflow.trigger_type,
                complexity |-> workflow.complexity,
                node_count |-> workflow.node_count,
                integrations |-> JsonDumps(workflow.integrations),
                tags |-> JsonDumpsTags(workflow.tags)])

\* the loop of _cache_workflows; an exception leaves the loop before the
\* commit.  The files are taken in order, the first half before the second.
RECURSIVE CacheLoop(_, _, _)
CacheLoop(json_files, rows, seed) ==
    IF json_files = <<>> THEN [state |-> "up", rows |-> rows]
    ELSE IF Len(json_files) = 1
    THEN LET workflow == app_analyze_workflow_file(Head(json_files), seed)
         IN  IF workflow.out = "raise" THEN [state |-> "crashed", rows |-> <<>>]
             ELSE [state |-> "up",
                   rows |-> IF workflow.out = "record"
                            THEN InsertOrReplace(rows, workflow.rec) ELSE rows]
    ELSE LET half == Len(json_files) \div 2
             first == CacheLoop(SubSeq(json_files, 1, half), rows, seed)
         IN  IF first.state = "crashed" THEN first
             ELSE CacheLoop(SubSeq(json_files, half + 1, Len(json_files)), first.rows, seed)

\* VercelWorkflowDB.__init__: _init_db and _cache_workflows.  rows are the rows
\* of the table in /tmp/workflows.db before the call: CREATE TABLE IF NOT
\* EXISTS keeps them, and rows inserted before an exception are not committed.
cache_workflows(dir, rows, seed) ==
    IF ~dir.exists THEN [state |-> "up", rows |-> rows]
    ELSE LET cached == CacheLoop(PySlice(dir.files, 0, AppFileLimit), rows, seed)
         IN  IF cached.state = "crashed" THEN [state |-> "crashed", rows |-> rows]
             ELSE cached

\* LIMIT ? OFFSET ? over the rows in rowid order
SqlLimitOffset(rows, limit, offset) ==
    LET first == IF offset < 0 THEN 0 ELSE offset
    IN  IF limit < 0 THEN PySlice(rows, first, Len(rows))
        ELSE PySlice(rows, first, first + limit)

\* VercelWorkflowDB.search_workflows: (results, total)
table_search_workflows(rows, query, limit, offset) ==
    LET pattern == "%" \o query \o "%"
        Test(row) == SqlLike(pattern, row.name) \/ SqlLike(pattern, row.description)
        selected == IF query # "" THEN SelectSeq(rows, Test) ELSE rows
        page_rows == SqlLimitOffset(selected, limit, offset)
    IN  [workflows |->
             [i \in 1..Len(page_rows) |->
                 [page_rows[i] EXCEPT !.integrations = JsonLoads(@),
                                      !.tags = JsonLoadsTags(@)]],
         total |-> Len(selected)]

\* pages = (total + per_page - 1) // per_page
AppPageCount(total, per_page) == PyFloorDiv(total + per_page - 1, per_page)

\* the endpoint /api/workflows
app_search_workflows(rows, r) ==
    IF r.page < 1 \/ r.per_page < 1 \/ r.per_page > AppPerPageLe THEN Unprocessable
    ELSE LET offset == (r.page - 1) * r.per_page
             found == table_search_workflows(rows, r.q, r.per_page, offset)
         IN  PageBody(found.workflows, found.total, r.page, r.per_page,
                      AppPageCount(found.total, r.per_page), r.q, <<>>)

(***************************************************************************)
(* Serving steps.                                                          *)
(***************************************************************************)
\* import of src/api/vercel_server.py: db = VercelWorkflowDB()
ServerImport ==
    /\ db.state = "down"
    /\ db' = [state |-> "up", data |-> load_data(snapfile)]
    /\ UNCHANGED <<doc, rec, apprec, hashseed, corpus, build, snapfile, table, req, resp,
                 scan, rival, answers>>

\* import of src/vercel_app.py: db = VercelWorkflowDB()
AppImport ==
    /\ table.state = "down"
    /\ table' = cache_workflows(corpus, table.rows, hashseed)
    /\ UNCHANGED <<doc, rec, apprec, hashseed, corpus, build, snapfile, db, req, resp,
                 scan, rival, answers>>

Queries == {"", "slack", ".JSON", "manual", "2", "zzz"}
TriggerFilters == {"", "all", "WEBHOOK", "Manual"}
ComplexityFilters == {"", "all", "LOW"}
Pages == -1..MaxPage
PerPages == (-1..MaxPerPage) \cup {ServerPerPageLe, ServerPerPageLe + 1}

IndexRequests ==
    {SearchReq(q, 1, MaxPerPage, t, c, a) :
        q \in Queries, t \in TriggerFilters, c \in ComplexityFilters, a \in BOOLEAN}
    \cup {SearchReq(q, p, n, "", "", FALSE) :
        q \in {"", "slack"}, p \in Pages, n \in PerPages}

ServerRequests ==
    {ServerReq(q, p, n) : q \in {"", " ", "slack"}, p \in Pages, n \in PerPages}

AppRequests ==
    {AppReq(q, p, n) : q \in {"", "slack", "lea_"}, p \in Pages, n \in PerPages}

\* a request arrives at a module that is imported
Request ==
    /\ req = NoReq
    /\ \E r \in IndexRequests \cup ServerRequests \cup AppRequests :
         /\ r.kind = "server" => db.state = "up"
         /\ r.kind = "app" => table.state = "up"
         /\ req' = r
    /\ UNCHANGED <<doc, rec, apprec, hashseed, corpus, build, snapfile, db, table, resp,
                 scan, rival, answers>>

\* GET /api/workflows of src/api/index.py
IndexSearch ==
    /\ req.kind = "index"
    /\ resp = NoResp
    /\ resp' = search_workflows(snapfile, req)
    /\ UNCHANGED <<doc, rec, apprec, hashseed, corpus, build, snapfile, db, table, req,
                 scan, rival, answers>>

\* GET /api/workflows of src/api/vercel_server.py
ServerSearch ==
    /\ req.kind = "server"
    /\ resp = NoResp
    /\ resp' = server_search_workflows(db.data, req)
    /\ UNCHANGED <<doc, rec, apprec, hashseed, corpus, build, snapfile, db, table, req,
                 scan, rival, answers>>

\* GET /api/workflows of src/vercel_app.py
AppSearch ==
    /\ req.kind = "app"
    /\ resp = NoResp
    /\ resp' = app_search_workflows(table.rows, req)
    /\ UNCHANGED <<doc, rec, apprec, hashseed, corpus, build, snapfile, db, table, req,
                 scan, rival, answers>>

\* the response is sent
Deliver ==
    /\ resp # NoResp
    /\ req' = NoReq
    /\ resp' = NoResp
    /\ UNCHANGED <<doc, rec, apprec, hashseed, corpus, build, snapfile, db, table,
                 scan, rival, answers>>

(***************************************************************************)
(* SpecSearch: the deployment builds the snapshot, then the three modules  *)
(* serve search requests one at a time.                                    *)
(***************************************************************************)
BrokenJson == OtherFile("", "broken.json", "badjson")
BrokenList == OtherFile("", "broken.json", "list")

SearchCorpora ==
    {AbsentDir,
     Dir(<<LeadFile>>),
     Dir(<<LeadFile, DigestFile, SyncFile>>),
     Dir(<<SyncFile, DigestFile, LeadFile>>),
     Dir(<<DigestFile, BrokenJson>>),
     Dir(<<LeadFile, BrokenList>>)}

SearchInit ==
    /\ doc = NoFile
    /\ rec = NotRun
    /\ apprec = NotRun
    /\ hashseed \in 0..MaxSeed
    /\ corpus \in SearchCorpora
    /\ build = BuildIdle
    /\ snapfile = AbsentFile
    /\ db = NotImported
    /\ table = NoTable
    /\ req = NoReq
    /\ resp = NoResp
    /\ scan = NoScan
    /\ rival = BuildIdle
    /\ answers = NoAnswers

BuildEnded == build.pc \in {"done", "raised"}

SearchNext ==
    \/ BuildNext
    \/ BuildEnded /\ ServerImport
    \/ BuildEnded /\ AppImport
    \/ BuildEnded /\ Request
    \/ IndexSearch
    \/ ServerSearch
    \/ AppSearch
    \/ Deliver

SpecSearch == SearchInit /\ [][SearchNext]_vars

(***************************************************************************)
(* deep_search_workflows of src/api/index.py: the files of the workflows   *)
(* directory are read one by one and searched as text.                     *)
(***************************************************************************)
MaxLimit == 2

DeepReq(q, limit) == [kind |-> "deep", q |-> q, limit |-> limit]

DeepBody(q, results) ==
    [kind |-> "deep", status |-> 200, query |-> q, results |-> results,
     total |-> Len(results), search_type |-> "deep_json_search"]

\* json.dumps(workflow_data, default=str): the text of the parsed document,
\* its keys in the order of the file
DocText(file) ==
    LET data == file.data
        Array(texts) == "[" \o PyJoin(", ", texts) \o "]"
        Object(members) == "{" \o PyJoin(", ", members) \o "}"
        Member(key, text) == JsonString(key) \o ": " \o text
        Strings(list) == Array([i \in 1..Len(list) |-> JsonString(list[i])])
        NodeText(node) ==
            Object(<<Member("type", JsonString(node.type)),
                     Member("name", JsonString(node.name))>>)
        WireText(wire) ==
            Member(wire.source,
                   Object(<<Member("main",
                       Array(<<Array([i \in 1..Len(wire.targets) |->
                           Object(<<Member("node", JsonString(wire.targets[i]))>>)])>>))>>))
    IN  IF file.kind = "list" THEN Strings(data.items)
        ELSE Object(
            (IF data.name.t = "absent" THEN <<>>
             ELSE <<Member("name", IF data.name.t = "null" THEN "null"
                                   ELSE JsonString(data.name.s))>>)
            \o <<Member("active", IF data.active THEN "true" ELSE "false"),
                 Member("tags", Array([i \in 1..Len(data.tags) |-> JsonTag(data.tags[i])])),
                 Member("nodes", Array([i \in 1..Len(data.nodes) |->
                                           NodeText(data.nodes[i])]))>>
            \o (IF data.connections = <<>> THEN <<>>
                ELSE <<Member("connections",
                              Object([i \in 1..Len(data.connections) |->
                                         WireText(data.connections[i])]))>>))

\* the result entry of a matching document; name is the JSON value under
\* 'name', description the '' of a document without meta
DeepResult(file, seed) ==
    LET data == file.data
        types == {data.nodes[i].type : i \in 1..Len(data.nodes)} \ {""}
        LastPart(type) == LET parts == PySplit(type, ".") IN parts[Len(parts)]
    IN  [filename |-> file.base,
         name |-> IF data.name.t = "absent" THEN JStr("Unknown") ELSE data.name,
         description |-> "",
         node_count |-> Len(data.nodes),
         integrations |-> ListOfSet({LastPart(type) : type \in types}, seed),
         match_type |-> "JSON content match"]

NoHit == [hit |-> FALSE, result |-> NoRecord]

\* the body of the loop on one file: the result to append, if any.  Every
\* exception is caught and goes on to the next file.
deep_scan_file(file, search_query, seed) ==
    IF file.kind \in {"unreadable", "badjson", "badutf8"} THEN NoHit
    ELSE IF ~Contains(search_query, PyLower(DocText(file))) THEN NoHit
    ELSE IF file.kind = "list" THEN NoHit       \* workflow_data.get: AttributeError
    ELSE [hit |-> TRUE, result |-> DeepResult(file, seed)]

\* `if not q` sending every request on to the scan
deep_entryNeverRejects(q) == "walk"

\* `if not q: return {"error": ...}`, the first statement of the handler
deep_entry(q) == IF q = "" THEN "reject" ELSE "walk"

\* the limit test passing one result late
LimitReachedLate(results, limit) == Len(results) > limit

\* `if len(results) >= limit: break`, run after an append
LimitReached(results, limit) == Len(results) >= limit

DeepQueries == {"", "SLACK", "gmail", "zzz"}
Limits == 0..MaxLimit

DeepRequest ==
    /\ req = NoReq
    /\ \E q \in DeepQueries, limit \in Limits : req' = DeepReq(q, limit)
    /\ scan' = [NoScan EXCEPT !.pc = "check"]
    /\ UNCHANGED <<doc, rec, apprec, hashseed, corpus, build, snapfile, db, table, resp,
                 rival, answers>>

DeepBegin ==
    /\ req.kind = "deep"
    /\ scan.pc = "check"
    /\ scan' = [scan EXCEPT !.pc = deep_entry(req.q)]
    /\ UNCHANGED <<doc, rec, apprec, hashseed, corpus, build, snapfile, db, table, req, resp,
                 rival, answers>>

DeepReject ==
    /\ scan.pc = "reject"
    /\ resp' = ErrorBody("Search query required")
    /\ scan' = [scan EXCEPT !.pc = "done"]
    /\ UNCHANGED <<doc, rec, apprec, hashseed, corpus, build, snapfile, db, table, req,
                 rival, answers>>

\* workflows_dir.rglob("*.json"): the directory is listed; an absent
\* directory lists nothing
DeepWalk ==
    /\ scan.pc = "walk"
    /\ scan' = [scan EXCEPT !.pc = "read", !.walked = TRUE,
                            !.files = IF corpus.exists THEN corpus.files ELSE <<>>]
    /\ UNCHANGED <<doc, rec, apprec, hashseed, corpus, build, snapfile, db, table, req, resp,
                 rival, answers>>

\* one iteration of the loop: the next file is opened and searched
DeepRead ==
    /\ scan.pc = "read"
    /\ scan.k <= Len(scan.files)
    /\ LET found == deep_scan_file(scan.files[scan.k], PyLower(req.q), hashseed)
           results == IF found.hit THEN Append(scan.results, found.result)
                      ELSE scan.results
       IN  scan' = [scan EXCEPT !.k = @ + 1, !.reads = @ + 1, !.results = results,
                        !.pc = IF found.hit /\ LimitReached(results, req.limit)
                               THEN "return" ELSE "read"]
    /\ UNCHANGED <<doc, rec, apprec, hashseed, corpus, build, snapfile, db, table, req, resp,
                 rival, answers>>

\* after the break or the last file
DeepReturn ==
    /\ \/ scan.pc = "return"
       \/ scan.pc = "read" /\ scan.k > Len(scan.files)
    /\ resp' = DeepBody(req.q, scan.results)
    /\ scan' = [scan EXCEPT !.pc = "done"]
    /\ UNCHANGED <<doc, rec, apprec, hashseed, corpus, build, snapfile, db, table, req,
                 rival, answers>>

(***************************************************************************)
(* SpecDeep: one process serving deep searches over a corpus.              *)
(***************************************************************************)
SlackNotes == ListFile("", "notes.json", <<"Slack tips">>)
Unreadable == OtherFile("", "locked.json", "unreadable")

DeepCorpora ==
    {AbsentDir}
    \cup {Dir(files) :
            files \in FileSeqs({LeadFile, DigestFile, SyncFile, SlackNotes, Unreadable})}

DeepInit ==
    /\ doc = NoFile
    /\ rec = NotRun
    /\ apprec = NotRun
    /\ hashseed \in 0..MaxSeed
    /\ corpus \in DeepCorpora
    /\ build = BuildIdle
    /\ snapfile = AbsentFile
    /\ db = NotImported
    /\ table = NoTable
    /\ req = NoReq
    /\ resp = NoResp
    /\ scan = NoScan
    /\ rival = BuildIdle
    /\ answers = NoAnswers

DeepNext ==
    \/ DeepRequest
    \/ DeepBegin
    \/ DeepReject
    \/ DeepWalk
    \/ DeepRead
    \/ DeepReturn
    \/ Deliver

SpecDeep == DeepInit /\ [][DeepNext]_vars

(***************************************************************************)
(* get_workflow, get_workflow_diagram and download_workflow of             *)
(* src/api/index.py: one document looked up by the filename of the path.   *)
(***************************************************************************)
MaxNodes == 3

LookupReq(handler, filename) == [kind |-> handler, filename |-> filename]

\* raise HTTPException(status_code, detail)
HttpError(status, detail) == [kind |-> "http_error", status |-> status, detail |-> detail]

\* Path.rglob(pattern) on a file name: pattern is a glob, * any run of
\* characters and ? any one character (character classes are not modelled);
\* the match is case-sensitive
RECURSIVE GlobMatch(_, _)
GlobMatch(pattern, name) ==
    IF ~Contains("*", pattern) /\ ~Contains("?", pattern) THEN pattern = name
    ELSE IF CharAt(pattern, 1) = "*"
    THEN \E k \in 0..Len(name) :
            GlobMatch(SubSeq(pattern, 2, Len(pattern)), SubSeq(name, k + 1, Len(name)))
    ELSE /\ name # ""
         /\ CharAt(pattern, 1) \in {"?", CharAt(name, 1)}
         /\ GlobMatch(SubSeq(pattern, 2, Len(pattern)), SubSeq(name, 2, Len(name)))

\* the loop over workflows_dir.rglob(filename): the position in the walk of
\* the first file the pattern matches, 0 when there is none
rglob_first(dir, filename) ==
    LET hits == {i \in 1..Len(dir.files) : GlobMatch(filename, dir.files[i].base)}
    IN  IF ~dir.exists \/ hits = {} THEN 0
        ELSE CHOOSE i \in hits : \A j \in hits : i <= j

\* the loop over data.get('workflows', []): the first record whose filename
\* is the requested one, 0 when there is none
FindRecord(workflows, filename) ==
    LET hits == {i \in 1..Len(workflows) : workflows[i].filename = filename}
    IN  IF hits = {} THEN 0 ELSE CHOOSE i \in hits : \A j \in hits : i <= j

\* the n8n structure made up from a record of the snapshot: a trigger node
\* and a main node.  The id, copied from workflow_id, is left out as the
\* record's workflow_id is.
StubOf(workflow) ==
    [name |-> workflow.name, active |-> workflow.active,
     nodes |-> <<Node("n8n-nodes-base.start", workflow.trigger_type \o " Trigger"),
                 Node("n8n-nodes-base.noOp", workflow.name)>>,
     connections |-> <<Wire("trigger-node", <<"main-node">>)>>,
     description |-> workflow.description, tags |-> workflow.tags]

\* the part the three handlers share: the record looked up in the persisted
\* snapshot, or the exception raised
FromSnapshot(file, filename) ==
    IF ~file.exists THEN HttpError(404, "vercel_workflows.json not found")
    ELSE IF ~ParseOk(file) THEN HttpError(500, "JSONDecodeError")
    ELSE LET workflows == Parsed(file).workflows
             i == FindRecord(workflows, filename)
         IN  IF i = 0 THEN HttpError(404, "Workflow not found")
             ELSE [kind |-> "record", workflow |-> workflows[i]]

get_workflow(dir, file, filename) ==
    LET i == rglob_first(dir, filename)
        looked_up == FromSnapshot(file, filename)
    IN  IF i # 0
        THEN IF dir.files[i].kind \in {"unreadable", "badjson", "badutf8"}
             THEN HttpError(500, dir.files[i].kind)
             ELSE [kind |-> "document", status |-> 200, body |-> dir.files[i].data]
        ELSE IF looked_up.kind = "record"
        THEN [kind |-> "stub", status |-> 200, body |-> StubOf(looked_up.workflow)]
        ELSE looked_up

download_workflow(file, filename) ==
    LET looked_up == FromSnapshot(file, filename)
    IN  IF looked_up.kind = "record"
        THEN [kind |-> "attachment", status |-> 200, body |-> StubOf(looked_up.workflow),
              content_disposition |-> "attachment; filename=" \o filename]
        ELSE looked_up

\* the display name cut to 30 characters before the ellipsis
CleanNameCutAt30(node_name) ==
    LET stripped == PyReplace(PyReplace(node_name, "\"", ""), "'", "")
    IN  IF Len(stripped) > 30 THEN SubSeq(stripped, 1, 30) \o "..." ELSE stripped

\* the display name of a node: quotes removed, cut to 27 characters and an
\* ellipsis when longer than 30
CleanName(node_name) ==
    LET stripped == PyReplace(PyReplace(node_name, "\"", ""), "'", "")
    IN  IF Len(stripped) > 30 THEN SubSeq(stripped, 1, 27) \o "..." ELSE stripped

CleanId(i) == "node" \o IntToStr(i)

\* node_map after the loop over the nodes: a dict keeps a key where it was
\* first inserted and the value last assigned to it
node_map_of(nodes) ==
    LET RECURSIVE Loop(_, _)
        Loop(map, i) ==
            IF i > Len(nodes) THEN map
            ELSE LET entry == [name |-> CleanName(nodes[i].name), id |-> CleanId(i)]
                     at == {j \in 1..Len(map) : map[j].name = entry.name}
                 IN  Loop(IF at = {} THEN Append(map, entry)
                          ELSE [j \in 1..Len(map) |-> IF j \in at THEN entry ELSE map[j]],
                          i + 1)
    IN  Loop(<<>>, 1)

\* the substring rule taking the last entry that satisfies it
ResolveEndpointLastPartial(node_map, endpoint) ==
    LET exact == {j \in 1..Len(node_map) : node_map[j].name = endpoint}
        partial == {j \in 1..Len(node_map) :
                       \/ Contains(endpoint, node_map[j].name)
                       \/ Contains(node_map[j].name, endpoint)}
    IN  IF exact # {} THEN node_map[CHOOSE j \in exact : TRUE].id
        ELSE IF partial # {} THEN node_map[CHOOSE j \in partial : \A k \in partial : j >= k].id
        ELSE ""

\* the clean id of one endpoint of a connection, "" for None: the exact
\* match, else the first entry of node_map one of whose name and the
\* endpoint contains the other
ResolveEndpoint(node_map, endpoint) ==
    LET exact == {j \in 1..Len(node_map) : node_map[j].name = endpoint}
        partial == {j \in 1..Len(node_map) :
                       \/ Contains(endpoint, node_map[j].name)
                       \/ Contains(node_map[j].name, endpoint)}
    IN  IF exact # {} THEN node_map[CHOOSE j \in exact : TRUE].id
        ELSE IF partial # {} THEN node_map[CHOOSE j \in partial : \A k \in partial : j <= k].id
        ELSE ""

\* mermaid_lines for a parsed document
MermaidLines(data) ==
    LET node_map == node_map_of(data.nodes)
        NodeLine(i) == "    " \o CleanId(i) \o "[\"" \o CleanName(data.nodes[i].name) \o "\"]"
        EdgesOf(wire) ==
            LET Line(target) ==
                    LET source_clean == ResolveEndpoint(node_map, wire.source)
                        target_clean == ResolveEndpoint(node_map, target)
                    IN  IF source_clean # "" /\ target_clean # ""
                        THEN <<"    " \o source_clean \o " --> " \o target_clean>>
                        ELSE <<>>
                RECURSIVE Targets(_)
                Targets(k) == IF k > Len(wire.targets) THEN <<>>
                              ELSE Line(wire.targets[k]) \o Targets(k + 1)
            IN  Targets(1)
        RECURSIVE Edges(_)
        Edges(k) == IF k > Len(data.connections) THEN <<>>
                    ELSE EdgesOf(data.connections[k]) \o Edges(k + 1)
    IN  <<"graph TD">> \o [i \in 1..Len(data.nodes) |-> NodeLine(i)] \o Edges(1)

\* the document of the model carries no trigger_type and no integrations
\* key: the defaults are returned
get_workflow_diagram(dir, file, filename) ==
    LET i == rglob_first(dir, filename)
        looked_up == FromSnapshot(file, filename)
    IN  IF i # 0
        THEN IF dir.files[i].kind \in {"unreadable", "badjson", "badutf8"}
             THEN HttpError(500, dir.files[i].kind)
             ELSE IF dir.files[i].kind = "list" THEN HttpError(500, "AttributeError")
             ELSE LET data == dir.files[i].data
                  IN  [kind |-> "diagram", status |-> 200,
                       diagram |-> PyJoin("\n", MermaidLines(data)),
                       workflow_name |-> IF data.name.t = "absent"
                                         THEN JStr("Unknown Workflow") ELSE data.name,
                       trigger_type |-> "Manual", node_count |-> Len(data.nodes),
                       integrations |-> <<>>]
        \* integrations = workflow_data.get(...): workflow_data is not bound on
        \* this path
        ELSE IF looked_up.kind = "record" THEN HttpError(500, "UnboundLocalError")
        ELSE looked_up

Handlers == {"get_workflow", "get_workflow_diagram", "download_workflow"}
Filenames ==
    {"0001_create_lead.json", "0002_digest.json", "0003_wired.json", "nope.json", "*.json"}

LookupRequest ==
    /\ req = NoReq
    /\ \E handler \in Handlers, filename \in Filenames : req' = LookupReq(handler, filename)
    /\ UNCHANGED <<doc, rec, apprec, hashseed, corpus, build, snapfile, db, table, resp,
                 scan, rival, answers>>

\* GET /api/workflows/{filename}
GetWorkflow ==
    /\ req.kind = "get_workflow"
    /\ resp = NoResp
    /\ resp' = get_workflow(corpus, snapfile, req.filename)
    /\ UNCHANGED <<doc, rec, apprec, hashseed, corpus, build, snapfile, db, table, req,
                 scan, rival, answers>>

\* GET /api/workflows/{filename}/diagram
GetWorkflowDiagram ==
    /\ req.kind = "get_workflow_diagram"
    /\ resp = NoResp
    /\ resp' = get_workflow_diagram(corpus, snapfile, req.filename)
    /\ UNCHANGED <<doc, rec, apprec, hashseed, corpus, build, snapfile, db, table, req,
                 scan, rival, answers>>

\* GET /api/workflows/{filename}/download
DownloadWorkflow ==
    /\ req.kind = "download_workflow"
    /\ resp = NoResp
    /\ resp' = download_workflow(snapfile, req.filename)
    /\ UNCHANGED <<doc, rec, apprec, hashseed, corpus, build, snapfile, db, table, req,
                 scan, rival, answers>>

LookupNext ==
    \/ LookupRequest
    \/ GetWorkflow
    \/ GetWorkflowDiagram
    \/ DownloadWorkflow
    \/ Deliver

(***************************************************************************)
(* build_vercel_data run to its end in one step: the file it leaves.       *)
(***************************************************************************)
\* the loop of build_vercel_data_dict over files none of which raises:
\* workflows_data
RECURSIVE AnalyzeAll(_, _)
AnalyzeAll(files, seed) ==
    IF files = <<>> THEN <<>>
    ELSE LET workflow_data == analyze_workflow_file(Head(files), seed)
         IN  (IF workflow_data.out = "record" THEN <<workflow_data.rec>> ELSE <<>>)
             \o AnalyzeAll(Tail(files), seed)

\* build_vercel_data_dict over files none of which raises
DictOf(files, seed) ==
    IF files = <<>> THEN EmptySnapshot
    ELSE Snapshot(ComputeStats(AnalyzeAll(files, seed)), AnalyzeAll(files, seed))

FileOf(vercel_data) == [exists |-> TRUE, chunks |-> Serialize(vercel_data)]

(***************************************************************************)
(* SpecDiagram: the handlers over a directory holding one document with    *)
(* connections: up to MaxNodes nodes named from NamePool, names repeated   *)
(* or not, and one source wired to two targets.                            *)
(***************************************************************************)
LongName == "Post the team's daily digest to Slack"
NamePool == {"Post", "Say \"hi\"", LongName}

NodeSeqs ==
    UNION {[1..n -> {Node("n8n-nodes-base.slack", name) : name \in NamePool}] :
              n \in 1..MaxNodes}

Wirings ==
    {<<Wire(source, <<first, second>>)>> :
        source \in {"Post", LongName},
        first \in {"Post", "Pos", "Say \"hi\"", LongName},
        second \in {"Say hi", "zzz"}}

DiagramFiles ==
    {DiagramFile("", "0003_wired.json", JStr("Wired"), nodes, connections) :
        nodes \in NodeSeqs, connections \in Wirings}

DiagramInit ==
    /\ doc = NoFile
    /\ rec = NotRun
    /\ apprec = NotRun
    /\ hashseed = 0
    /\ corpus \in {Dir(<<file>>) : file \in DiagramFiles}
    /\ build = BuildIdle
    /\ snapfile = AbsentFile
    /\ db = NotImported
    /\ table = NoTable
    /\ req = NoReq
    /\ resp = NoResp
    /\ scan = NoScan
    /\ rival = BuildIdle
    /\ answers = NoAnswers

SpecDiagram == DiagramInit /\ [][LookupNext]_vars

(***************************************************************************)
(* SpecLookup: the handlers over a workflows directory and a snapshot the  *)
(* deployment built, from that directory or from another.                  *)
(***************************************************************************)
LookupCorpora ==
    {AbsentDir, Dir(<<LeadFile>>), Dir(<<LeadFile, DigestFile>>), Dir(<<SyncFile, DigestFile>>),
     Dir(<<OtherFile("", "0002_digest.json", "badjson"), LeadFile>>),
     Dir(<<ListFile("", "0002_digest.json", <<"Slack tips">>)>>)}

LookupSnapshots ==
    {AbsentFile}
    \cup {FileOf(DictOf(files, seed)) :
            files \in {<<>>, <<LeadFile>>, <<LeadFile, DigestFile>>}, seed \in 0..MaxSeed}

LookupInit ==
    /\ doc = NoFile
    /\ rec = NotRun
    /\ apprec = NotRun
    /\ hashseed \in 0..MaxSeed
    /\ corpus \in LookupCorpora
    /\ build = BuildIdle
    /\ snapfile \in LookupSnapshots
    /\ db = NotImported
    /\ table = NoTable
    /\ req = NoReq
    /\ resp = NoResp
    /\ scan = NoScan
    /\ rival = BuildIdle
    /\ answers = NoAnswers

SpecLookup == LookupInit /\ [][LookupNext]_vars

(***************************************************************************)
(* SpecServe: the two API processes are up, src/api/vercel_server.py with  *)
(* the snapshot it loaded when imported, and serve searches and stats      *)
(* while the deployment rebuilds or removes the snapshot between requests. *)
(***************************************************************************)
StatsReq(module) == [kind |-> module]

StatsBody(stats) == [kind |-> "stats", status |-> 200, stats |-> stats]

\* get_stats of src/api/index.py: the file is opened and parsed on the request
index_get_stats(file) ==
    IF ~file.exists THEN ErrorBody("vercel_workflows.json not found")
    ELSE IF ~ParseOk(file) THEN ErrorBody("JSONDecodeError")
    ELSE StatsBody(Parsed(file).stats)

\* get_stats of src/api/vercel_server.py
server_get_stats(data) == StatsBody(db_get_stats(data))

ServeRequests ==
    {SearchReq("", 1, MaxPerPage, "", "", FALSE), StatsReq("index_stats"),
     ServerReq("", 1, MaxPerPage), StatsReq("server_stats")}

ServeRequest ==
    /\ req = NoReq
    /\ \E r \in ServeRequests : req' = r
    /\ UNCHANGED <<doc, rec, apprec, hashseed, corpus, build, snapfile, db, table, resp,
                 scan, rival, answers>>

\* GET /api/stats of src/api/index.py
IndexStats ==
    /\ req.kind = "index_stats"
    /\ resp = NoResp
    /\ resp' = index_get_stats(snapfile)
    /\ UNCHANGED <<doc, rec, apprec, hashseed, corpus, build, snapfile, db, table, req,
                 scan, rival, answers>>

\* GET /api/stats of src/api/vercel_server.py
ServerStats ==
    /\ req.kind = "server_stats"
    /\ resp = NoResp
    /\ resp' = server_get_stats(db.data)
    /\ UNCHANGED <<doc, rec, apprec, hashseed, corpus, build, snapfile, db, table, req,
                 scan, rival, answers>>

\* the response is sent; the first answer to each request is remembered
DeliverAnswer ==
    /\ resp # NoResp
    /\ answers' = IF req \in DOMAIN answers THEN answers ELSE answers @@ (req :> resp)
    /\ req' = NoReq
    /\ resp' = NoResp
    /\ UNCHANGED <<doc, rec, apprec, hashseed, corpus, build, snapfile, db, table,
                 scan, rival>>

ServeFiles == {<<LeadFile>>, <<LeadFile, DigestFile>>}

\* build_vercel_data run from start to end by another process, between two
\* requests, over the directory as it is then
OutOfBandBuild ==
    /\ req = NoReq
    /\ \E files \in ServeFiles, seed \in 0..MaxSeed :
         /\ corpus' = Dir(files)
         /\ snapfile' = FileOf(DictOf(files, seed))
    /\ UNCHANGED <<doc, rec, apprec, hashseed, build, db, table, req, resp,
                 scan, rival, answers>>

\* the deployment removes the snapshot file
RemoveSnapshot ==
    /\ req = NoReq
    /\ snapfile.exists
    /\ snapfile' = AbsentFile
    /\ UNCHANGED <<doc, rec, apprec, hashseed, corpus, build, db, table, req, resp,
                 scan, rival, answers>>

ServeInit ==
    /\ doc = NoFile
    /\ rec = NotRun
    /\ apprec = NotRun
    /\ hashseed \in 0..MaxSeed
    /\ corpus \in {Dir(files) : files \in ServeFiles}
    /\ build = BuildIdle
    /\ snapfile = FileOf(DictOf(corpus.files, hashseed))
    /\ db = [state |-> "up", data |-> load_data(snapfile)]
    /\ table = NoTable
    /\ req = NoReq
    /\ resp = NoResp
    /\ scan = NoScan
    /\ rival = BuildIdle
    /\ answers = NoAnswers

ServeNext ==
    \/ ServeRequest
    \/ IndexSearch
    \/ ServerSearch
    \/ IndexStats
    \/ ServerStats
    \/ DeliverAnswer
    \/ OutOfBandBuild
    \/ RemoveSnapshot

SpecServe == ServeInit /\ [][ServeNext]_vars

(***************************************************************************)
(* SpecRace: two runs of build_vercel_data write the same output file.     *)
(* The second run starts once the first has listed the directory, finds    *)
(* the directory as it is by then, and has its own hash seed.  Each run    *)
(* holds its own file object, and so its own offset into the file.         *)
(***************************************************************************)
RaceFiles == {<<LeadFile>>, <<LeadFile, DigestFile>>, <<SyncFile, DigestFile>>}

\* the second run up to the return of build_vercel_data_dict
RivalStart ==
    /\ build.pc # "idle"
    /\ rival.pc = "idle"
    /\ \E files \in RaceFiles, seed \in 0..MaxSeed :
         /\ corpus' = Dir(files)
         /\ rival' = [rival EXCEPT !.pc = "open", !.json_files = files,
                                   !.vercel_data = DictOf(files, seed)]
    /\ UNCHANGED <<doc, rec, apprec, hashseed, build, snapfile, db, table, req, resp,
                 scan, answers>>

\* open(output_file, 'w') of the second run truncates the file
RivalOpen ==
    /\ rival.pc = "open"
    /\ snapfile' = [exists |-> TRUE, chunks |-> <<>>]
    /\ rival' = [rival EXCEPT !.pc = "dump", !.pos = 0]
    /\ UNCHANGED <<doc, rec, apprec, hashseed, corpus, build, db, table, req, resp,
                 scan, answers>>

\* json.dump of the second run: the next piece, at its own offset
RivalDump ==
    /\ rival.pc = "dump"
    /\ LET text == Serialize(rival.vercel_data)
           k == rival.pos + 1
       IN  /\ snapfile' = [snapfile EXCEPT !.chunks = WriteAt(@, k, text[k])]
           /\ rival' = [rival EXCEPT !.pos = k,
                                     !.pc = IF k = Len(text) THEN "report" ELSE "dump"]
    /\ UNCHANGED <<doc, rec, apprec, hashseed, corpus, build, db, table, req, resp,
                 scan, answers>>

RivalReport ==
    /\ rival.pc = "report"
    /\ rival' = [rival EXCEPT !.pc = "done"]
    /\ UNCHANGED <<doc, rec, apprec, hashseed, corpus, build, snapfile, db, table, req, resp,
                 scan, answers>>

RaceInit ==
    /\ doc = NoFile
    /\ rec = NotRun
    /\ apprec = NotRun
    /\ hashseed \in 0..MaxSeed
    /\ corpus \in {Dir(files) : files \in RaceFiles}
    /\ build = BuildIdle
    /\ snapfile = AbsentFile
    /\ db = NotImported
    /\ table = NoTable
    /\ req = NoReq
    /\ resp = NoResp
    /\ scan = NoScan
    /\ rival = BuildIdle
    /\ answers = NoAnswers

RaceNext ==
    \/ BuildNext
    \/ RivalStart
    \/ RivalOpen
    \/ RivalDump
    \/ RivalReport

SpecRace == RaceInit /\ [][RaceNext]_vars

(***************************************************************************)
(* SpecCache: src/vercel_app.py constructed again and again on one host.   *)
(* The database file /tmp/workflows.db outlives the process; the workflows *)
(* directory is redeployed between two constructions.                      *)
(***************************************************************************)
MaxRowId == 4

\* SUM(node_count) over the rows lo..hi
RECURSIVE SumNodes(_, _, _)
SumNodes(rows, lo, hi) ==
    IF lo > hi THEN 0
    ELSE IF lo = hi THEN rows[lo].node_count
    ELSE LET mid == (lo + hi) \div 2
         IN  SumNodes(rows, lo, mid) + SumNodes(rows, mid + 1, hi)

\* VercelWorkflowDB.get_stats
table_get_stats(rows) ==
    LET Count(value, Field(_)) == Cardinality({i \in 1..Len(rows) : Field(rows[i]) = value})
        Active(row) == row.active
        Trigger(row) == row.trigger_type
        Complexity(row) == row.complexity
        active == Count(1, Active)
    IN  [total |-> Len(rows),
         active |-> active,
         inactive |-> Len(rows) - active,
         triggers |-> [t \in {Trigger(rows[i]) : i \in 1..Len(rows)} |-> Count(t, Trigger)],
         complexity |-> [c \in {Complexity(rows[i]) : i \in 1..Len(rows)} |->
                            Count(c, Complexity)],
         total_nodes |-> SumNodes(rows, 1, Len(rows))]

\* GET /api/stats of src/vercel_app.py
app_get_stats(rows) == StatsBody(table_get_stats(rows))

AppStatsRequest ==
    /\ req = NoReq
    /\ table.state = "up"
    /\ req' = StatsReq("app_stats")
    /\ UNCHANGED <<doc, rec, apprec, hashseed, corpus, build, snapfile, db, table, resp,
                 scan, rival, answers>>

AppStats ==
    /\ req.kind = "app_stats"
    /\ resp = NoResp
    /\ resp' = app_get_stats(table.rows)
    /\ UNCHANGED <<doc, rec, apprec, hashseed, corpus, build, snapfile, db, table, req,
                 scan, rival, answers>>

\* one more file than _cache_workflows reads
ManyFiles ==
    [i \in 1..(AppFileLimit + 1) |->
        ObjectFile("", IntToStr(i) \o "_flow.json", JStr("Flow"), FALSE, <<>>, <<PlainNode>>)]

CacheCorpora ==
    {AbsentDir,
     Dir(<<LeadFile>>),
     Dir(<<DigestFile>>),
     Dir(<<LeadFile, DigestFile>>),
     Dir(<<DigestFile, BrokenJson>>),
     Dir(<<LeadFile, BrokenList>>),
     Dir(<<LeadFile, SyncFile>>),
     Dir(ManyFiles)}

\* the process ends and the directory is deployed anew; the database file stays
Redeploy ==
    /\ table.state # "down"
    /\ req = NoReq
    /\ IF table.rows = <<>> THEN TRUE ELSE table.rows[Len(table.rows)].id <= MaxRowId
    /\ \E dir \in CacheCorpora : corpus' = dir
    /\ \E seed \in 0..MaxSeed : hashseed' = seed
    /\ table' = [state |-> "down", rows |-> table.rows]
    /\ UNCHANGED <<doc, rec, apprec, build, snapfile, db, req, resp, scan, rival, answers>>

CacheInit ==
    /\ doc = NoFile
    /\ rec = NotRun
    /\ apprec = NotRun
    /\ hashseed \in 0..MaxSeed
    /\ corpus \in CacheCorpora
    /\ build = BuildIdle
    /\ snapfile = AbsentFile
    /\ db = NotImported
    /\ table = NoTable
    /\ req = NoReq
    /\ resp = NoResp
    /\ scan = NoScan
    /\ rival = BuildIdle
    /\ answers = NoAnswers

CacheNext ==
    \/ AppImport
    \/ AppStatsRequest
    \/ AppStats
    \/ Deliver
    \/ Redeploy

SpecCache == CacheInit /\ [][CacheNext]_vars

(***************************************************************************)
(* SpecServer: src/api/vercel_server.py serving from the snapshot it       *)
(* loaded at import: search pages and the two lookups by filename.         *)
(***************************************************************************)
\* the query get_workflow_detail and download_workflow hand to the store
FilenameQuery(filename) == "filename:\"" \o filename \o "\""

\* raw_json as the two handlers make it up from a record of the file; id is
\* left out as the record's workflow_id is
RawJsonOf(workflow) ==
    [name |-> workflow.name, active |-> workflow.active, nodes |-> <<>>,
     connections |-> <<>>,
     meta |-> [description |-> workflow.description, tags |-> workflow.tags]]

\* the inner try of the two handlers: every exception raised in it, the
\* HTTPException(404) of a missing file or record included, is caught by
\* `except Exception` and raised again as a 500
ServerRawJson(file, filename) ==
    IF ~file.exists THEN HttpError(500, "Error loading workflow data")
    ELSE IF ~ParseOk(file) THEN HttpError(500, "Error loading workflow data")
    ELSE LET workflows == Parsed(file).workflows
             i == FindRecord(workflows, filename)
         IN  IF i = 0 THEN HttpError(500, "Error loading workflow data")
             ELSE [kind |-> "record", workflow |-> workflows[i]]

\* GET /api/workflows/{filename} of src/api/vercel_server.py
get_workflow_detail(data, file, filename) ==
    LET workflows == db_search_workflows(data, FilenameQuery(filename), 1, 0).workflows
        raw == ServerRawJson(file, filename)
    IN  IF workflows = <<>> THEN HttpError(404, "Workflow not found in database")
        ELSE IF raw.kind # "record" THEN raw
        ELSE [kind |-> "detail", status |-> 200, metadata |-> workflows[1],
              raw_json |-> RawJsonOf(raw.workflow)]

\* GET /api/workflows/{filename}/download of src/api/vercel_server.py
server_download_workflow(data, file, filename) ==
    LET workflows == db_search_workflows(data, FilenameQuery(filename), 1, 0).workflows
        raw == ServerRawJson(file, filename)
        raw_json == RawJsonOf(raw.workflow)
    IN  IF workflows = <<>> THEN HttpError(404, "Workflow not found in database")
        ELSE IF raw.kind # "record" THEN raw
        ELSE [kind |-> "attachment", status |-> 200,
              body |-> [raw_json EXCEPT !.name = IF @ = "" THEN workflows[1].name ELSE @],
              content_disposition |-> "attachment; filename=" \o filename]

\* tags exported as objects, as the n8n editor writes them
TaggedFile ==
    ObjectFile("", "0004_tagged.json", JStr("Slack Alert"), TRUE, <<JObject("ops")>>,
               <<Node("n8n-nodes-base.manualTrigger", "Start"),
                 Node("n8n-nodes-base.slack", "Post")>>)

\* a document whose name holds the text of a lookup query
ProbeFile ==
    ObjectFile("", "0005_probe.json", JStr(FilenameQuery("0002_digest.json")), FALSE, <<>>,
               <<Node("n8n-nodes-base.slack", "Post")>>)

ServerFiles ==
    {<<LeadFile>>, <<LeadFile, DigestFile>>, <<LeadFile, TaggedFile, DigestFile>>,
     <<TaggedFile>>, <<DigestFile, ProbeFile>>}

ServerLookups == {"server_detail", "server_download"}

ServerFilenames ==
    {"0001_create_lead.json", "0002_digest.json", "0004_tagged.json", "nope.json"}

ServerSideRequest ==
    /\ req = NoReq
    /\ \E r \in {ServerReq(q, p, n) : q \in {"", "slack"}, p \in 0..MaxPage,
                                      n \in 0..MaxPerPage}
              \cup {LookupReq(h, f) : h \in ServerLookups, f \in ServerFilenames} :
         req' = r
    /\ UNCHANGED <<doc, rec, apprec, hashseed, corpus, build, snapfile, db, table, resp,
                 scan, rival, answers>>

ServerDetail ==
    /\ req.kind = "server_detail"
    /\ resp = NoResp
    /\ resp' = get_workflow_detail(db.data, snapfile, req.filename)
    /\ UNCHANGED <<doc, rec, apprec, hashseed, corpus, build, snapfile, db, table, req,
                 scan, rival, answers>>

ServerDownload ==
    /\ req.kind = "server_download"
    /\ resp = NoResp
    /\ resp' = server_download_workflow(db.data, snapfile, req.filename)
    /\ UNCHANGED <<doc, rec, apprec, hashseed, corpus, build, snapfile, db, table, req,
                 scan, rival, answers>>

ServerInit ==
    /\ doc = NoFile
    /\ rec = NotRun
    /\ apprec = NotRun
    /\ hashseed \in 0..MaxSeed
    /\ corpus \in {Dir(files) : files \in ServerFiles}
    /\ build = BuildIdle
    /\ snapfile = FileOf(DictOf(corpus.files, hashseed))
    /\ db = [state |-> "up", data |-> load_data(snapfile)]
    /\ table = NoTable
    /\ req = NoReq
    /\ resp = NoResp
    /\ scan = NoScan
    /\ rival = BuildIdle
    /\ answers = NoAnswers

ServerNext ==
    \/ ServerSideRequest
    \/ ServerSearch
    \/ ServerDetail
    \/ ServerDownload
    \/ Deliver

SpecServer == ServerInit /\ [][ServerNext]_vars

(***************************************************************************)
(* SpecOverlap: build_vercel_data rewrites the snapshot while src/api/     *)
(* index.py serves: a previous build left a complete file, which           *)
(* src/api/vercel_server.py loaded at import, and requests arrive at any   *)
(* step of the new build.  A handler opens and parses the file in one      *)
(* step.                                                                   *)
(***************************************************************************)
OverlapRequests == {SearchReq("", 1, MaxPerPage, "", "", FALSE), StatsReq("index_stats")}

OverlapRequest ==
    /\ req = NoReq
    /\ \E r \in OverlapRequests : req' = r
    /\ UNCHANGED <<doc, rec, apprec, hashseed, corpus, build, snapfile, db, table, resp,
                 scan, rival, answers>>

PreviousFiles == {<<LeadFile>>, <<DigestFile, LeadFile>>}
RebuiltFiles == {<<LeadFile, DigestFile>>, <<DigestFile>>, <<LeadFile>>}

OverlapInit ==
    /\ doc = NoFile
    /\ rec = NotRun
    /\ apprec = NotRun
    /\ hashseed \in 0..MaxSeed
    /\ corpus \in {Dir(files) : files \in RebuiltFiles}
    /\ build = BuildIdle
    /\ snapfile \in {FileOf(DictOf(files, seed)) : files \in PreviousFiles, seed \in 0..MaxSeed}
    /\ db = [state |-> "up", data |-> load_data(snapfile)]
    /\ table = NoTable
    /\ req = NoReq
    /\ resp = NoResp
    /\ scan = NoScan
    /\ rival = BuildIdle
    /\ answers = NoAnswers

OverlapNext ==
    \/ BuildNext
    \/ OverlapRequest
    \/ IndexSearch
    \/ IndexStats
    \/ Deliver

SpecOverlap == OverlapInit /\ [][OverlapNext]_vars

(***************************************************************************)
(* Claims about the analyzer, checked under SpecAnalyze.                   *)
(***************************************************************************)
Analyzed == rec.out = "record"
AppAnalyzed == apprec.out = "record"
DocNodes == doc.data.nodes
DocNodeCount == Len(DocNodes)

BucketAgrees(r, n) ==
    /\ r.node_count = n
    /\ r.complexity \in {"low", "medium", "high"}
    /\ (r.complexity = "low" <=> n <= 5)
    /\ (r.complexity = "medium" <=> (6 <= n /\ n <= 15))
    /\ (r.complexity = "high" <=> n > 15)

\* C4: every record an analyzer produces has node_count = the length of the
\* document's nodes, and complexity low iff node_count <= 5, medium iff
\* 6 <= node_count <= 15, high iff node_count > 15 (both analyzers).
C4_ComplexityBucket ==
    /\ Analyzed => BucketAgrees(rec.rec, DocNodeCount)
    /\ AppAnalyzed => BucketAgrees(apprec.rec, DocNodeCount)

C4_Witness ==
    /\ Analyzed /\ AppAnalyzed
    /\ DocNodeCount = 6
    /\ rec.rec.complexity = "medium" /\ apprec.rec.complexity = "medium"

DistinctIntegrations(r) == Cardinality({r.integrations[i] : i \in 1..Len(r.integrations)})

\* C5: a record's trigger_type is Complex if and only if node_count > 10 and
\* it has more than 3 distinct integrations, whatever the node scan found.
C5_ComplexIff ==
    Analyzed =>
        (rec.rec.trigger_type = "Complex"
            <=> (DocNodeCount > 10 /\ DistinctIntegrations(rec.rec) > 3))

HasWebhookNode ==
    \E i \in 1..DocNodeCount :
        \/ Contains("webhook", PyLower(DocNodes[i].type))
        \/ Contains("webhook", PyLower(DocNodes[i].name))

IsScheduleNode(node) ==
    \/ Contains("cron", PyLower(node.type))
    \/ Contains("schedule", PyLower(node.type))

IsTriggerNode(node) ==
    /\ Contains("trigger", PyLower(node.type))
    /\ ~Contains("manual", PyLower(node.type))

\* The override of rule 5 wins over a webhook node in the document.
C5_Witness ==
    /\ Analyzed
    /\ rec.rec.trigger_type = "Complex"
    /\ HasWebhookNode

OverrideApplies == DocNodeCount > 10 /\ DistinctIntegrations(rec.rec) > 3

\* C6: when the Complex override does not apply and some node's type or name
\* contains "webhook" (ignoring case), trigger_type is Webhook, in whatever
\* order the nodes appear.
C6_WebhookAnyOrder ==
    (Analyzed /\ ~OverrideApplies /\ HasWebhookNode) => rec.rec.trigger_type = "Webhook"

\* C7: when no node's type or name contains "webhook" and the Complex override
\* does not apply: Scheduled if some node's type contains "cron" or
\* "schedule"; otherwise Webhook if some node's type contains "trigger" and
\* not "manual"; otherwise Manual (types compared lower-cased, as the code
\* reads them).
C7_ScheduledTriggerManual ==
    (Analyzed /\ ~OverrideApplies /\ ~HasWebhookNode) =>
        rec.rec.trigger_type =
            IF \E i \in 1..DocNodeCount : IsScheduleNode(DocNodes[i]) THEN "Scheduled"
            ELSE IF \E i \in 1..DocNodeCount : IsTriggerNode(DocNodes[i]) THEN "Webhook"
            ELSE "Manual"

\* A schedule node first, a service trigger node after it: still Scheduled.
C7_Witness ==
    /\ Analyzed /\ ~OverrideApplies /\ ~HasWebhookNode
    /\ DocNodeCount >= 2
    /\ IsScheduleNode(DocNodes[1])
    /\ IsTriggerNode(DocNodes[2]) /\ ~IsScheduleNode(DocNodes[2])
    /\ rec.rec.trigger_type = "Scheduled"

(***************************************************************************)
(* Claims about the builder, checked under SpecBuild.                      *)
(***************************************************************************)
\* build_vercel_data_dict has returned its dict
DictReturned ==
    \/ build.pc \in {"open", "dump", "report", "done"}
    \/ build.raised_in = "build_vercel_data"

EmptyCorpus == ~corpus.exists \/ corpus.files = <<>>

\* C8: for every corpus build_vercel_data_dict finishes with a snapshot, no
\* document aborting the batch, and every enumerated file is one record of
\* workflows or one increment of the error counter.
C8_EveryFileAccounted ==
    /\ build.raised_in # "build_vercel_data_dict"
    /\ DictReturned =>
         Len(build.vercel_data.workflows) + build.errors = Len(corpus.files)

\* C9: with the directory absent or holding no JSON document, the build
\* completes without raising and the snapshot has no workflows.
C9_EmptyCorpusCompletes ==
    EmptyCorpus =>
        /\ build.pc # "raised"
        /\ DictReturned => build.vercel_data.workflows = <<>>
        /\ build.pc = "done" => (ParseOk(snapfile) /\ Parsed(snapfile).workflows = <<>>)

CountOf(w, Test(_)) == Cardinality({i \in 1..Len(w) : Test(w[i])})

HistogramAgrees(hist, w, Key(_)) ==
    /\ DOMAIN hist = {Key(w[i]) : i \in 1..Len(w)}
    /\ \A k \in DOMAIN hist :
         /\ hist[k] = Cardinality({i \in 1..Len(w) : Key(w[i]) = k})
         /\ hist[k] > 0

\* C10: in a snapshot built from a non-empty corpus, stats agrees with
\* workflows: total, active, inactive, both histograms (no key with count
\* 0), total_nodes and unique_integrations.
C10_StatsAgree ==
    (DictReturned /\ ~EmptyCorpus) =>
        LET st == build.vercel_data.stats
            w == build.vercel_data.workflows
            IsActive(r) == r.active
            TriggerOf(r) == r.trigger_type
            ComplexityOfRecord(r) == r.complexity
        IN  /\ st.total = Len(w)
            /\ st.active = CountOf(w, IsActive)
            /\ st.inactive = st.total - st.active
            /\ HistogramAgrees(st.triggers, w, TriggerOf)
            /\ HistogramAgrees(st.complexity, w, ComplexityOfRecord)
            /\ st.total_nodes =
                 Cardinality(UNION {{<<i, k>> : k \in 1..w[i].node_count} : i \in 1..Len(w)})
            /\ st.unique_integrations =
                 Cardinality(UNION {{w[i].integrations[j] : j \in 1..Len(w[i].integrations)} :
                                       i \in 1..Len(w)})

\* Three records, two of them of complexity low and two active.
C10_Witness ==
    /\ DictReturned
    /\ ~EmptyCorpus
    /\ "total" \in DOMAIN build.vercel_data.stats
    /\ build.vercel_data.stats.total = 3
    /\ "low" \in DOMAIN build.vercel_data.stats.complexity
    /\ build.vercel_data.stats.complexity["low"] = 2
    /\ build.vercel_data.stats.active = 2
    /\ build.errors = 0

(***************************************************************************)
(* Claims about search, checked under SpecSearch.                          *)
(***************************************************************************)
\* the elements of seq at the positions in P, in ascending position
Pick(seq, P) ==
    [k \in 1..Cardinality(P) |->
        seq[CHOOSE i \in P : Cardinality({j \in P : j <= i}) = k]]

\* every string the text predicate looks into
TextFields(w) ==
    {w.name, w.description, IntToStr(w.node_count), w.trigger_type, w.complexity,
     w.filename}
    \cup {w.integrations[i] : i \in 1..Len(w.integrations)}
    \cup {PyStr(w.tags[i]) : i \in 1..Len(w.tags)}

Selected(r, w) ==
    /\ r.q = "" \/ \E f \in TextFields(w) : Contains(PyLower(r.q), PyLower(f))
    /\ r.trigger \in {"", "all"} \/ PyLower(w.trigger_type) = PyLower(r.trigger)
    /\ r.complexity \in {"", "all"} \/ PyLower(w.complexity) = PyLower(r.complexity)
    /\ r.active_only => w.active

\* the matching records of a snapshot, in snapshot order
Matching(workflows, r) ==
    Pick(workflows, {i \in 1..Len(workflows) : Selected(r, workflows[i])})

SnapshotReadable == snapfile.exists /\ ParseOk(snapfile)

\* search_workflows of src/api/index.py answers the request
IndexAnswers == req.kind = "index" /\ resp.kind = "none" /\ resp'.kind # "none"

C2_Pagination ==
    [][(IndexAnswers /\ SnapshotReadable /\ req.page >= 1 /\ req.per_page >= 1) =>
          LET filtered == Matching(Parsed(snapfile).workflows, req)
              total == Len(filtered)
              OnPage(j) == (req.page - 1) * req.per_page < j /\ j <= req.page * req.per_page
          IN  /\ resp'.kind = "page"
              /\ resp'.total = total
              /\ resp'.workflows = Pick(filtered, {j \in 1..total : OnPage(j)})
              /\ \A j \in 1..total :
                    OnPage(j) <=> ((j - 1) \div req.per_page) + 1 = req.page
              /\ req.page > resp'.pages => resp'.workflows = <<>>]_vars

\* per_page = 1, page = 2 on three matches: the second match alone
C2_Witness ==
    /\ req.kind = "index"
    /\ resp.kind = "page"
    /\ req.q = "slack"
    /\ req.per_page = 1
    /\ req.page = 2
    /\ resp.total = 3
    /\ resp.pages = 3
    /\ SnapshotReadable
    /\ resp.workflows = <<Parsed(snapfile).workflows[2]>>

\* C3: in every search result with per_page >= 1, pages is
\* ceil(total / per_page), computed as (total + per_page - 1) div per_page:
\* 0 exactly when total is 0, and otherwise
\* (pages-1)*per_page < total <= pages*per_page.
C3_PageCount ==
    (resp.kind = "page" /\ resp.per_page >= 1) =>
        /\ resp.pages = (resp.total + resp.per_page - 1) \div resp.per_page
        /\ resp.pages = 0 <=> resp.total = 0
        /\ resp.total > 0 =>
             /\ (resp.pages - 1) * resp.per_page < resp.total
             /\ resp.total <= resp.pages * resp.per_page

\* three matches in pages of two: two pages
C3_Witness ==
    /\ req.kind = "index"
    /\ resp.kind = "page"
    /\ resp.total = 3
    /\ resp.per_page = 2
    /\ resp.pages = 2

(***************************************************************************)
(* Claims about the snapshot round trip and the record key.                *)
(***************************************************************************)
ValidCount ==
    Cardinality({i \in 1..Len(corpus.files) :
                    analyze_workflow_file(corpus.files[i], hashseed).out = "record"})

Persisted == snapfile.exists /\ ParseOk(snapfile)

\* C11: once build_vercel_data has persisted the snapshot of a corpus and the
\* store has loaded it, get_stats()['total'] is the number of documents
\* analyzed without failure and the store's workflows are the built ones.
C11_RoundTrip ==
    (db.state = "up" /\ Persisted) =>
        /\ "total" \in DOMAIN db_get_stats(db.data)
        /\ db_get_stats(db.data).total = ValidCount
        /\ db.data.workflows = build.vercel_data.workflows

\* C12: filename is a unique key: in every dict build_vercel_data_dict
\* returns no two records of workflows have the same filename, whatever the
\* recursive walk enumerates, sub-directories included.
C12_FilenameUnique ==
    DictReturned =>
        \A i, j \in 1..Len(build.vercel_data.workflows) :
            i # j => build.vercel_data.workflows[i].filename
                         # build.vercel_data.workflows[j].filename

(***************************************************************************)
(* Claims about deep search, checked under SpecDeep.                       *)
(***************************************************************************)
DeepServed == req.kind = "deep" /\ req.q # "" /\ resp.kind = "deep"

\* C13: for every non-empty q and every limit, 0 included, at most limit
\* results are returned, and once limit matches are collected no further
\* file is read.
C13_LimitRespected ==
    /\ [](DeepServed => Len(resp.results) <= req.limit)
    /\ [][(req.kind = "deep" /\ req.q # "" /\ Len(scan.results) >= req.limit)
            => scan'.reads = scan.reads]_vars

\* read and parsed, the serialized text containing q whatever the case
TextMatches(file) ==
    /\ file.kind \in {"object", "list"}
    /\ Contains(PyLower(req.q), PyLower(DocText(file)))

FirstOf(eligible) ==
    LET n == IF req.limit < Len(eligible) THEN req.limit ELSE Len(eligible)
    IN  [i \in 1..n |-> DeepResult(eligible[i], hashseed)]

WorkflowMatches(file) == file.kind = "object" /\ TextMatches(file)

C15_EmptyQueryRejected ==
    (req.kind = "deep" /\ req.q = "") =>
        /\ ~scan.walked
        /\ scan.reads = 0
        /\ resp # NoResp => resp = ErrorBody("Search query required")
        /\ scan.pc = "done" => resp # NoResp

C15_Witness ==
    /\ req.kind = "deep"
    /\ req.q = ""
    /\ resp.kind = "error"
    /\ corpus.exists
    /\ corpus.files # <<>>

(***************************************************************************)
(* Claims about the diagram, checked under SpecDiagram.                    *)
(***************************************************************************)
DiagramServed == resp.kind = "diagram"

\* the only document of the directory, the one a diagram is drawn of
Drawn == corpus.files[1].data

DiagramLines == PySplit(resp.diagram, "\n")

RECURSIVE WithoutQuotes(_)
WithoutQuotes(name) ==
    IF Len(name) = 0 THEN ""
    ELSE IF Len(name) = 1 THEN (IF name \in {"\"", "'"} THEN "" ELSE name)
    ELSE LET half == Len(name) \div 2
         IN  WithoutQuotes(SubSeq(name, 1, half))
             \o WithoutQuotes(SubSeq(name, half + 1, Len(name)))

Display(i) ==
    LET bare == WithoutQuotes(Drawn.nodes[i].name)
    IN  IF Len(bare) > 30 THEN SubSeq(bare, 1, 27) \o "..." ELSE bare

NodeIds == {"node" \o IntToStr(i) : i \in 1..Len(Drawn.nodes)}

\* C17: one node line per raw node, in document order, the i-th with the
\* identifier node<i> and the name without quotes, cut to 27 characters and
\* "..." when longer than 30: at most 30 characters, no quote.
C17_NodeList ==
    DiagramServed =>
        /\ DiagramLines[1] = "graph TD"
        /\ Len(DiagramLines) >= 1 + Len(Drawn.nodes)
        /\ \A i \in 1..Len(Drawn.nodes) :
             /\ DiagramLines[i + 1] = "    node" \o IntToStr(i) \o "[\"" \o Display(i) \o "\"]"
             /\ Len(Display(i)) <= 30
             /\ ~Contains("\"", Display(i))
             /\ ~Contains("'", Display(i))
        /\ \A k \in (2 + Len(Drawn.nodes))..Len(DiagramLines) :
             ~Contains("[", DiagramLines[k])

C17_Witness ==
    /\ DiagramServed
    /\ Len(Drawn.nodes) = MaxNodes
    /\ \E i, j \in 1..Len(Drawn.nodes) :
         /\ Drawn.nodes[i].name = LongName
         /\ Drawn.nodes[j].name = "Say \"hi\""

\* the identifier recorded for a display name: that of the last node
\* displayed under it
RecordedId(name) ==
    LET at == {i \in 1..Len(Drawn.nodes) : Display(i) = name}
    IN  "node" \o IntToStr(CHOOSE i \in at : \A j \in at : i >= j)

SubstringRule(i, endpoint) ==
    Contains(endpoint, Display(i)) \/ Contains(Display(i), endpoint)

\* what an endpoint resolves to, "" when it does not resolve
Resolved(endpoint) ==
    LET partial == {i \in 1..Len(Drawn.nodes) : SubstringRule(i, endpoint)}
    IN  IF \E i \in 1..Len(Drawn.nodes) : Display(i) = endpoint THEN RecordedId(endpoint)
        ELSE IF partial # {}
        THEN RecordedId(Display(CHOOSE i \in partial : \A j \in partial : i <= j))
        ELSE ""

RECURSIVE PairsFrom(_)
PairsFrom(k) ==
    IF k > Len(Drawn.connections) THEN <<>>
    ELSE [t \in 1..Len(Drawn.connections[k].targets) |->
             <<Drawn.connections[k].source, Drawn.connections[k].targets[t]>>]
         \o PairsFrom(k + 1)

BothResolve(pair) == Resolved(pair[1]) # "" /\ Resolved(pair[2]) # ""

\* C16: an endpoint equal to a recorded display name resolves to the id
\* recorded for it; the substring rule serves only an endpoint without exact
\* match and takes the first recorded name in node order; an edge line is
\* emitted iff both endpoints resolve, and its ids are declared node ids.
C16_EdgeResolution ==
    DiagramServed =>
        LET edges == SubSeq(DiagramLines, 2 + Len(Drawn.nodes), Len(DiagramLines))
            emitted == SelectSeq(PairsFrom(1), BothResolve)
        IN  /\ Len(edges) = Len(emitted)
            /\ \A k \in 1..Len(edges) :
                 /\ edges[k] = "    " \o Resolved(emitted[k][1]) \o " --> "
                                      \o Resolved(emitted[k][2])
                 /\ Resolved(emitted[k][1]) \in NodeIds
                 /\ Resolved(emitted[k][2]) \in NodeIds

\* the source resolves by the substring rule, the first target exactly and
\* to the id of the later node of two of one name, the second target not
C16_Witness ==
    /\ DiagramServed
    /\ Drawn.connections = <<Wire(LongName, <<"Post", "zzz">>)>>
    /\ Len(Drawn.nodes) = MaxNodes
    /\ Drawn.nodes[1].name = LongName
    /\ \A i \in 2..Len(Drawn.nodes) : Drawn.nodes[i].name = "Post"
    /\ Len(DiagramLines) = 2 + Len(Drawn.nodes)
    /\ DiagramLines[Len(DiagramLines)]
         = "    node" \o IntToStr(MaxNodes) \o " --> node" \o IntToStr(MaxNodes)

(***************************************************************************)
(* Claims about the lookup by filename, checked under SpecLookup.          *)
(***************************************************************************)
\* the filename of no document of the directory and of no record of the
\* snapshot
Unknown(filename) ==
    /\ \A i \in 1..Len(corpus.files) : corpus.files[i].base # filename
    /\ Persisted =>
         \A i \in 1..Len(Parsed(snapfile).workflows) :
             Parsed(snapfile).workflows[i].filename # filename

\* C20: for a filename that names no document and no record, get_workflow,
\* get_workflow_diagram and download_workflow each answer 404, never 500 and
\* never a successful body.
C20_UnknownIsNotFound ==
    (req.kind \in Handlers /\ resp # NoResp /\ Unknown(req.filename)) =>
        resp.status = 404

(***************************************************************************)
(* Claims about the life of the loaded index, checked under SpecServe.     *)
(***************************************************************************)
\* C18: the index is loaded once and immutable while the process lives: a
\* request answered before gets the same answer again, also after the
\* snapshot file is rewritten or removed between the two requests.
C18_SameAnswer ==
    [][(resp = NoResp /\ resp' # NoResp /\ req \in DOMAIN answers)
          => resp' = answers[req]]_vars

(***************************************************************************)
(* Claims about two builds writing one file, checked under SpecRace.       *)
(***************************************************************************)
BothFinished == build.pc = "done" /\ rival.pc = "done"

\* C19: after two interleaved runs of build_vercel_data have both finished,
\* the persisted file is the complete snapshot of one of them, never a
\* mixture or a truncation of the two.
C19_LastWriterWins ==
    BothFinished =>
        \/ snapfile.chunks = Serialize(build.vercel_data)
        \/ snapfile.chunks = Serialize(rival.vercel_data)

(***************************************************************************)
(* Claims about the bounds of page and per_page, checked under SpecSearch. *)
(***************************************************************************)
OutOfBounds(r) == r.page < 1 \/ r.per_page < 1 \/ r.per_page > ServerPerPageLe

\* C21: search_workflows of src/api/index.py and of src/api/vercel_server.py
\* serve only page >= 1 and 1 <= per_page <= 100: a request outside the
\* bounds is rejected, nothing being filtered, sliced or divided for it.
C21_BoundsEnforced ==
    (req.kind \in {"index", "server"} /\ resp # NoResp /\ OutOfBounds(req)) =>
        /\ resp.kind # "page"
        /\ resp # ErrorBody("ZeroDivisionError")

(***************************************************************************)
(* Claims about integrations and descriptions, checked under SpecAnalyze.  *)
(***************************************************************************)
BasePrefix == "n8n-nodes-base."
ScopedPrefix == "@n8n/"

\* the keys of the resolver table that occur in the text, by table position
KeysIn(text) == {k \in 1..Len(service_mappings) : Contains(service_mappings[k][1], text)}

\* the part of the text after its last ".", the whole text when it has none
AfterLastDot(text) ==
    LET dots == {i \in 1..Len(text) : SubSeq(text, i, i) = "."}
    IN  IF dots = {} THEN text
        ELSE SubSeq(text, (CHOOSE i \in dots : \A j \in dots : j <= i) + 1, Len(text))

WithoutTrigger(text) == PyReplace(text, "trigger", "")

ValueOfKey(key) ==
    LET at == {k \in 1..Len(service_mappings) : service_mappings[k][1] = key}
    IN  IF at = {} THEN {}
        ELSE {service_mappings[CHOOSE k \in at : \A j \in at : j <= k][2]}

\* the contribution of one node by the stated rule: a set of at most one name
Contribution(node) ==
    LET name == PyLower(node.name)
        type == PyLower(node.type)
        named == KeysIn(name)
    IN  IF named # {}
        THEN {service_mappings[CHOOSE k \in named : \A j \in named : k <= j][2]}
        ELSE IF StartsWith(type, BasePrefix)
        THEN ValueOfKey(WithoutTrigger(SubSeq(type, Len(BasePrefix) + 1, Len(type))))
        ELSE IF StartsWith(type, ScopedPrefix)
        THEN ValueOfKey(WithoutTrigger(AfterLastDot(type)))
        ELSE {}

IntegrationSet(r) == {r.integrations[i] : i \in 1..Len(r.integrations)}

\* C22: each node contributes at most one canonical name: the value of the
\* first resolver-table key (in table order) found in its lower-cased name,
\* whatever its type resolves to; otherwise the table value of its type after
\* the base-library prefix, or after the last "." of an organization-scoped
\* type, with "trigger" removed; otherwise nothing.  The record's integrations
\* are exactly the contributions of its nodes.
C22_IntegrationExtraction ==
    Analyzed =>
        /\ \A i \in 1..DocNodeCount : Cardinality(Contribution(DocNodes[i])) <= 1
        /\ IntegrationSet(rec.rec) = UNION {Contribution(DocNodes[i]) : i \in 1..DocNodeCount}

\* A node whose name holds two keys of different values and whose type
\* resolves to a third: the record has the first key's value only.
C22_Witness ==
    /\ Analyzed
    /\ \E i \in 1..DocNodeCount :
          /\ Cardinality({service_mappings[k][2] : k \in KeysIn(PyLower(DocNodes[i].name))}) > 1
          /\ MappingGet(WithoutTrigger(AfterLastDot(PyLower(DocNodes[i].type)))) = "HTTP Request"
          /\ Contribution(DocNodes[i]) = {"Slack"}
    /\ \E i \in 1..DocNodeCount :
          /\ StartsWith(PyLower(DocNodes[i].type), ScopedPrefix)
          /\ Contribution(DocNodes[i]) = {"OpenAI"}
    /\ "Slack" \in IntegrationSet(rec.rec)
    /\ "OpenAI" \in IntegrationSet(rec.rec)
    /\ "HTTP Request" \notin IntegrationSet(rec.rec)

ClauseOf(trigger_type) ==
    IF trigger_type = "Complex" THEN "Complex multi-step automation that"
    ELSE IF trigger_type = "Webhook" THEN "Webhook-triggered automation that"
    ELSE IF trigger_type = "Scheduled" THEN "Scheduled automation that"
    ELSE ""

Clauses == {ClauseOf(t) : t \in {"Complex", "Webhook", "Scheduled"}}

\* the description carries the clause of the trigger type, and no clause at
\* all when the trigger type is Manual
ClauseAgrees(r) ==
    IF r.trigger_type = "Manual"
    THEN \A c \in Clauses : ~StartsWith(r.description, c)
    ELSE StartsWith(r.description, ClauseOf(r.trigger_type))

\* C23: the description of every record starts with the clause of the
\* record's final trigger type (Complex, Webhook, Scheduled), and with none of
\* the clauses when the trigger type is Manual.
C23_TriggerClause == Analyzed => ClauseAgrees(rec.rec)

\* C23, amended: the same for every record with at least one integration; a
\* record without integrations starts with none of the clauses, whatever its
\* trigger type.
C23_TriggerClauseWithIntegrations ==
    Analyzed =>
        IF rec.rec.integrations # <<>>
        THEN ClauseAgrees(rec.rec)
        ELSE \A c \in Clauses : ~StartsWith(rec.rec.description, c)

\* A Scheduled record that also has a trigger node of an unmapped service:
\* the clause is that of the final trigger type.
C23_Witness ==
    /\ Analyzed
    /\ rec.rec.trigger_type = "Scheduled"
    /\ rec.rec.integrations # <<>>
    /\ \E i \in 1..DocNodeCount : Contribution(DocNodes[i]) = {}
    /\ StartsWith(rec.rec.description, "Scheduled automation that  2 nodes and using ")

(***************************************************************************)
(* Claims about the rebuild-on-load store, checked under SpecCache.        *)
(***************************************************************************)
AppValidCount ==
    Cardinality({i \in 1..Len(corpus.files) :
                    app_analyze_workflow_file(corpus.files[i], hashseed).out = "record"})

\* C24: after VercelWorkflowDB of src/vercel_app.py is constructed over the
\* corpus directory, get_stats()['total'] is the number of valid documents of
\* the corpus, for every corpus size and whatever rows were in the database
\* file before.
C24_TotalIsValidCount ==
    (req.kind = "app_stats" /\ resp.kind = "stats") =>
        resp.stats.total = AppValidCount

(***************************************************************************)
(* Claims about src/api/vercel_server.py, checked under SpecServer.        *)
(***************************************************************************)
Min(a, b) == IF a < b THEN a ELSE b
Max(a, b) == IF a < b THEN b ELSE a

\* C25: for page >= 1 and per_page in 1..100 the response of the search
\* endpoint of vercel_server.py holds min(per_page, max(0, total -
\* (page - 1) * per_page)) workflows: no matching record is left out of its
\* page.
C25_PageIsFull ==
    (req.kind = "server" /\ resp.kind = "page") =>
        Len(resp.workflows) =
            Min(req.per_page, Max(0, resp.total - (req.page - 1) * req.per_page))

SnapshotFilenames ==
    {db.data.workflows[i].filename : i \in 1..Len(db.data.workflows)}

\* C26: get_workflow_detail and download_workflow of vercel_server.py find
\* the record of every filename of the loaded snapshot and answer with its
\* data; not-found is answered only for filenames absent from the snapshot.
C26_LookupFindsRecord ==
    (req.kind \in ServerLookups /\ resp # NoResp) =>
        IF req.filename \in SnapshotFilenames
        THEN /\ resp.status = 200
             /\ (req.kind = "server_detail" => resp.metadata.filename = req.filename)
        ELSE resp.status = 404

(***************************************************************************)
(* Claims about the diagram fallback, checked under SpecLookup.            *)
(***************************************************************************)
Placeholder == "graph TD\n    A[Start] --> B[Process]\n    B --> C[End]"

\* the requested filename has no raw document but is a record's filename
OnlyInSnapshot(filename) ==
    /\ rglob_first(corpus, filename) = 0
    /\ Persisted
    /\ FindRecord(Parsed(snapfile).workflows, filename) # 0

RecordOf(filename) ==
    Parsed(snapfile).workflows[FindRecord(Parsed(snapfile).workflows, filename)]

\* C27: when the requested filename has no raw document under the corpus
\* root but is the filename of a record of the persisted snapshot,
\* get_workflow_diagram answers 200 with the placeholder diagram and the
\* record's name, trigger_type and node_count, not with an internal failure.
C27_DiagramFallback ==
    (req.kind = "get_workflow_diagram" /\ resp # NoResp /\ OnlyInSnapshot(req.filename)) =>
        /\ resp.status = 200
        /\ resp.kind = "diagram"
        /\ resp.diagram = Placeholder
        /\ resp.workflow_name = JStr(RecordOf(req.filename).name)
        /\ resp.trigger_type = RecordOf(req.filename).trigger_type
        /\ resp.node_count = RecordOf(req.filename).node_count

(***************************************************************************)
(* Claims about the edges of documents with distinct node names, checked   *)
(* under SpecDiagram.                                                      *)
(***************************************************************************)
DistinctNames ==
    \A i, j \in 1..Len(Drawn.nodes) : i # j => Drawn.nodes[i].name # Drawn.nodes[j].name

IsNodeName(name) == \E i \in 1..Len(Drawn.nodes) : Drawn.nodes[i].name = name

\* the identifier of the node of that name
IdOfName(name) ==
    "node" \o IntToStr(CHOOSE i \in 1..Len(Drawn.nodes) : Drawn.nodes[i].name = name)

BothNamed(pair) == IsNodeName(pair[1]) /\ IsNodeName(pair[2])

\* C28: in the diagram of a document whose node names are pairwise distinct,
\* every connection whose source and target are names of nodes has an edge
\* from the source node's identifier to the target node's identifier, and to
\* no other node, also when names are longer than 30 characters or hold
\* quote characters.
C28_EdgeComplete ==
    (DiagramServed /\ DistinctNames) =>
        LET edges == SubSeq(DiagramLines, 2 + Len(Drawn.nodes), Len(DiagramLines))
            wired == SelectSeq(PairsFrom(1), BothNamed)
        IN  /\ \A k \in 1..Len(wired) :
                 \E e \in 1..Len(edges) :
                     edges[e] = "    " \o IdOfName(wired[k][1]) \o " --> "
                                       \o IdOfName(wired[k][2])
            /\ Len(wired) = Len(PairsFrom(1)) => Len(edges) = Len(wired)

(***************************************************************************)
(* Claims about requests during a rebuild, checked under SpecOverlap.      *)
(***************************************************************************)
\* what the handler of the request answers from a given snapshot file
AnswerFrom(file) ==
    IF req.kind = "index_stats" THEN index_get_stats(file) ELSE search_workflows(file, req)

\* the complete snapshot of the previous build (the one loaded at import) and
\* the complete snapshot of the running build
PreviousSnapshot == FileOf(db.data)
RebuiltSnapshot == FileOf(DictOf(corpus.files, hashseed))

\* C29: a search or stats request of src/api/index.py that overlaps with
\* build_vercel_data rewriting the snapshot file is answered from the
\* complete previous snapshot or from the complete new one: never an error,
\* never a result computed from an empty or partly written file.
C29_OldOrNewSnapshot ==
    (req \in OverlapRequests /\ resp # NoResp) =>
        /\ resp.kind # "error"
        /\ resp \in {AnswerFrom(PreviousSnapshot), AnswerFrom(RebuiltSnapshot)}

(***************************************************************************)
(* Claims about repeated analysis, checked under SpecAnalyze.              *)
(***************************************************************************)
\* C30: analyzing the same document at the same path again, in this or in
\* another builder run (another process, another hash seed), yields the
\* identical record: the description names the same integrations in the
\* same order.
C30_Deterministic ==
    Analyzed =>
        \A seed \in 0..MaxSeed :
            /\ analyze_workflow_file(doc, seed).out = "record"
            /\ analyze_workflow_file(doc, seed).rec = rec.rec

=============================================================================
